---- MODULE Spec2Model ----
(***************************************************************************)
(* State-machine model of the arma-support-web admin console               *)
(* (src/arma-support-web/app).  One client session talks to the FastAPI    *)
(* application; every action is one HTTP request handled to completion,    *)
(* including the exception handler of main.py and the commit of the        *)
(* handler's database session.                                             *)
(***************************************************************************)
EXTENDS Integers, Sequences, FiniteSets, TLC

VARIABLES
    session,                  \* the SessionMiddleware cookie: user_id, flash list
    admin_users,              \* id -> [username, password_hash, is_active]
    admin_roles,              \* id -> role name
    admin_user_roles,         \* set of <<user_id, role_id>>
    admin_permissions,        \* <<role_id, table_name>> -> CRUD flags
    admin_panel_permissions,  \* role_id -> the seven panel flags
    admin_kv_permissions,     \* set of [role_id, side, field_name, can_edit]
    db,                       \* application tables: table name -> sequence of rows
    kvstore,                  \* <<pid, k, side>> -> [v, t]
    req,                      \* the request being answered
    resp,                     \* the response sent for it
    toggles,                  \* the toggle-status updates run back to back, newest first
    txs                       \* the info saves in flight and the writes they made

authVars == <<admin_users, admin_roles, admin_user_roles>>
permVars == <<admin_permissions, admin_panel_permissions, admin_kv_permissions>>
dataVars == <<db, kvstore>>
vars == <<session, authVars, permVars, dataVars, req, resp, toggles, txs>>

----------------------------------------------------------------------------
(* Bounds of the model *)

MaxFlash == 2      \* flash messages kept in one session
MaxRows == 2       \* rows per application table
MaxId == 2         \* largest auto-increment id handed out

(* Program constants *)

NoUser == 0        \* session.get("user_id") is None: falsy, like the id 0

----------------------------------------------------------------------------
(* auth.py *)

hash_password(p) == <<"bcrypt", p>>

verify_password(p, h) == h = hash_password(p)

get_user_id(s) == s.user_id

----------------------------------------------------------------------------
(* flash.py *)

flash(s, message, category) ==
    [s EXCEPT !.flash = Append(@, [message |-> message, category |-> category])]

----------------------------------------------------------------------------
(* permissions.py *)

is_admin(user_id) ==
    \E ur \in admin_user_roles :
        /\ ur[1] = user_id
        /\ ur[2] \in DOMAIN admin_roles
        /\ admin_roles[ur[2]] = "admin"

ACTION_COL ==
    [view |-> "can_view", create |-> "can_create",
     update |-> "can_update", delete |-> "can_delete"]

can_AnyUser(user_id, table_name, action) ==
    /\ action \in DOMAIN ACTION_COL
    /\ \E ur \in admin_user_roles, p \in DOMAIN admin_permissions :
        /\ p[1] = ur[2]
        /\ p[2] = table_name
        /\ admin_permissions[p][ACTION_COL[action]] = 1

can(user_id, table_name, action) ==
    /\ action \in DOMAIN ACTION_COL
    /\ \E ur \in admin_user_roles, p \in DOMAIN admin_permissions :
        /\ ur[1] = user_id
        /\ p[1] = ur[2]
        /\ p[2] = table_name
        /\ admin_permissions[p][ACTION_COL[action]] = 1

ADMIN_ACTION_COL ==
    [admin_access |-> "can_admin_access", user_create |-> "can_user_create",
     user_toggle |-> "can_user_toggle", user_role_add |-> "can_user_role_add",
     user_role_remove |-> "can_user_role_remove", role_create |-> "can_role_create",
     permissions_edit |-> "can_permissions_edit"]

can_admin_panel(user_id, action) ==
    /\ action \in DOMAIN ADMIN_ACTION_COL
    /\ \E ur \in admin_user_roles :
        /\ ur[1] = user_id
        /\ ur[2] \in DOMAIN admin_panel_permissions
        /\ admin_panel_permissions[ur[2]][ADMIN_ACTION_COL[action]] = 1

KV_FIELDS ==
    {"name", "level", "pt", "cash", "bank", "address", "town", "birthday",
     "birthlocation", "eyecolor", "height"}

can_kv_field_Always(user_id, side, field_name) == TRUE

can_kv_field(user_id, side, field_name) ==
    IF side \notin {0, 1, 2} THEN FALSE
    ELSE IF field_name \notin KV_FIELDS THEN FALSE
    ELSE IF is_admin(user_id) THEN TRUE
    ELSE \E ur \in admin_user_roles, kp \in admin_kv_permissions :
            /\ ur[1] = user_id
            /\ kp.role_id = ur[2]
            /\ kp.side = side
            /\ kp.field_name = field_name
            /\ kp.can_edit = 1

----------------------------------------------------------------------------
(* Requests and responses *)

\* A path is the tuple of its segments; a request without Referer header has <<>>.
NoReferer == <<>>

NoForm == [k \in {} |-> ""]

NoCtx == [k \in {} |-> ""]

Request(route, arg, form, referer) ==
    [route |-> route, arg |-> arg, form |-> form, referer |-> referer]

\* exc names what the handler raised ("" when it returned a response itself).
Response(status, location, template, ctx, exc) ==
    [status |-> status, location |-> location, template |-> template,
     ctx |-> ctx, exc |-> exc]

RedirectResponse(location) == Response(303, location, "", NoCtx, "")

TemplateResponse(template, ctx) == Response(200, <<>>, template, ctx, "")

HTTPException(code) ==
    CASE code = 400 -> "HTTP400"
      [] code = 401 -> "HTTP401"
      [] code = 403 -> "HTTP403"
      [] OTHER -> "HTTP404"

\* Starlette's default handler answers an HTTPException with its status code.
default_exception_handler(code) == Response(code, <<>>, "", NoCtx, HTTPException(code))

\* An exception that is no HTTPException ends in the server's 500 answer.
ServerError(exc) == Response(500, <<>>, "", NoCtx, exc)

----------------------------------------------------------------------------
(* main.py *)

Msg403 == "Keine Berechtigung fuer diese Aktion."

custom_http_exception_handler_Any4xx(s, code, referer) ==
    [session |-> flash(s, Msg403, "danger"),
     resp |-> [RedirectResponse(IF referer = NoReferer THEN <<"/">> ELSE referer)
                  EXCEPT !.exc = HTTPException(code)]]

custom_http_exception_handler(s, code, referer) ==
    IF code = 403
    THEN [session |-> flash(s, Msg403, "danger"),
          resp |-> [RedirectResponse(IF referer = NoReferer THEN <<"/">> ELSE referer)
                        EXCEPT !.exc = HTTPException(403)]]
    ELSE [session |-> s, resp |-> default_exception_handler(code)]

\* The handler raised HTTPException(code): the session and the response that result.
Raise(code) ==
    LET h == custom_http_exception_handler(session, code, req'.referer)
    IN  /\ session' = h.session
        /\ resp' = h.resp

\* The handler died with another exception: nothing was committed.
Crash(exc) ==
    /\ session' = session
    /\ resp' = ServerError(exc)

\* A path or form parameter arrives as text; one declared int is parsed
\* before the handler runs.
is_int(raw) == raw \in {"0", "1", "2", "3", "4"}

int(raw) ==
    CASE raw = "0" -> 0
      [] raw = "1" -> 1
      [] raw = "2" -> 2
      [] raw = "3" -> 3
      [] OTHER -> 4

\* A parameter that does not parse: the request is answered before the
\* handler is called.
RequestValidationError ==
    /\ session' = session
    /\ resp' = Response(422, <<>>, "", NoCtx, "RequestValidationError")

\* Every handler that may flash is served only while the flash list has room.
CanServe == Len(session.flash) < MaxFlash

----------------------------------------------------------------------------
(* auth_routes.py *)

UserRows(username) == {id \in DOMAIN admin_users : admin_users[id].username = username}

login_skips_active(id, password) ==
    verify_password(password, admin_users[id].password_hash)

\* The row passes the two checks made on it (is_active, then the password).
login_accepts(id, password) ==
    /\ admin_users[id].is_active = 1
    /\ verify_password(password, admin_users[id].password_hash)

LoginFailed == TemplateResponse("login.html", [error |-> "Login fehlgeschlagen."])

login(username, password) ==
    /\ UNCHANGED txs
    /\ req' = Request("login", [username |-> username, password |-> password],
                      NoForm, NoReferer)
    /\ LET rows == UserRows(username)
           row == CHOOSE id \in rows : TRUE
       IN  IF rows = {} \/ ~login_accepts(row, password)
           THEN /\ session' = session
                /\ resp' = LoginFailed
           ELSE /\ session' = [session EXCEPT !.user_id = row]
                /\ resp' = RedirectResponse(<<"/tables">>)
    /\ toggles' = <<>>
    /\ UNCHANGED <<authVars, permVars, dataVars>>

logout ==
    /\ UNCHANGED txs
    /\ req' = Request("logout", NoCtx, NoForm, NoReferer)
    /\ session' = [user_id |-> NoUser, flash |-> <<>>]
    /\ resp' = RedirectResponse(<<"/login">>)
    /\ toggles' = <<>>
    /\ UNCHANGED <<authVars, permVars, dataVars>>

\* GET /: to the table list with a session, to the login page without.
root(referer) ==
    /\ UNCHANGED txs
    /\ req' = Request("root", NoCtx, NoForm, referer)
    /\ session' = session
    /\ resp' = RedirectResponse(IF get_user_id(session) # NoUser
                                THEN <<"/tables">> ELSE <<"/login">>)
    /\ toggles' = <<>>
    /\ UNCHANGED <<authVars, permVars, dataVars>>

\* GET /login
login_page(referer) ==
    /\ UNCHANGED txs
    /\ req' = Request("login_page", NoCtx, NoForm, referer)
    /\ session' = session
    /\ resp' = TemplateResponse("login.html", [error |-> "None"])
    /\ toggles' = <<>>
    /\ UNCHANGED <<authVars, permVars, dataVars>>

----------------------------------------------------------------------------
(* The database schema the reflector finds: db.py for support_cases (the    *)
(* columns the handlers of the model read or write), and three application  *)
(* tables of the deployment: one with the key id, one without a primary     *)
(* key, one with a primary key of two columns.                              *)

Schema ==
    [plog |-> [cols |-> {"id", "msg"}, pks |-> {"id"},
               autoinc |-> {"id"}, required |-> {}],
     slog |-> [cols |-> {"msg"}, pks |-> {},
               autoinc |-> {}, required |-> {}],
     tags |-> [cols |-> {"pid", "k", "v"}, pks |-> {"pid", "k"},
               autoinc |-> {}, required |-> {"pid", "k"}],
     support_cases |-> [cols |-> {"id", "player_pid", "case_type", "status"},
                        pks |-> {"id"}, autoinc |-> {"id"},
                        required |-> {"player_pid", "case_type"}]]

\* The tables of the panel itself, beside the application tables.
AdminTables ==
    {"admin_users", "admin_roles", "admin_user_roles", "admin_permissions",
     "admin_panel_permissions", "admin_kv_permissions"}

\* information_schema.tables of the database
Catalog == DOMAIN Schema \cup AdminTables

\* The first six characters of a table name, all it has when it is shorter.
Head6(t) ==
    CASE t \in {"admin_users", "admin_user_roles"} -> <<"a", "d", "m", "i", "n", "_">>
      [] t \in {"admin_roles", "admin_permissions"} -> <<"a", "d", "m", "i", "n", "_">>
      [] t \in {"admin_panel_permissions", "admin_kv_permissions"} ->
            <<"a", "d", "m", "i", "n", "_">>
      [] t = "support_cases" -> <<"s", "u", "p", "p", "o", "r">>
      [] t = "plog" -> <<"p", "l", "o", "g">>
      [] t = "slog" -> <<"s", "l", "o", "g">>
      [] t = "tags" -> <<"t", "a", "g", "s">>
      [] OTHER -> <<>>

like_admin_Never(t) == FALSE

\* table_name LIKE 'admin_%': the five letters, one character of any kind
\* for the underscore of the pattern, and whatever follows.
like_admin(t) ==
    /\ Len(Head6(t)) = 6
    /\ SubSeq(Head6(t), 1, 5) = <<"a", "d", "m", "i", "n">>

\* table_name NOT LIKE 'admin_%' over the tables of the database
ApplicationTables == {t \in Catalog : ~like_admin(t)}

\* server_default of a column; NULL otherwise.
ServerDefault(c) == IF c = "status" THEN "open" ELSE "NULL"

\* The form field that carries the key value of primary-key column c.
PkField == [id |-> "pk_id", msg |-> "pk_msg", pid |-> "pk_pid", k |-> "pk_k"]

IsPkField(k) == \E c \in DOMAIN PkField : PkField[c] = k

Restrict(f, keys) == [k \in DOMAIN f \cap keys |-> f[k]]

Ids(rows) == {rows[i].id : i \in DOMAIN rows}

NextId(rows) ==
    IF rows = <<>> THEN 1
    ELSE 1 + CHOOSE m \in Ids(rows) : \A n \in Ids(rows) : n <= m

----------------------------------------------------------------------------
(* crud_dynamic.py *)

TableExists(table_name) == table_name \in DOMAIN Schema

primary_key_columns(t) == Schema[t].pks

row_identity_filter_NoPkCheck(t, pk_values) ==
    LET pks == primary_key_columns(t)
    IN  IF \E c \in pks : c \notin DOMAIN pk_values
        THEN [exc |-> "ValueError", conds |-> NoForm]
        ELSE [exc |-> "", conds |-> [c \in pks |-> pk_values[c]]]

\* conds is the conjunction: column name -> the value it must equal.
row_identity_filter(t, pk_values) ==
    LET pks == primary_key_columns(t)
    IN  IF pks = {}
        THEN [exc |-> "ValueError", conds |-> NoForm]
        ELSE IF \E c \in pks : c \notin DOMAIN pk_values
        THEN [exc |-> "ValueError", conds |-> NoForm]
        ELSE [exc |-> "", conds |-> [c \in pks |-> pk_values[c]]]

Matches_Any(row, conds) == \E c \in DOMAIN conds : row[c] = conds[c]

Matches(row, conds) == \A c \in DOMAIN conds : row[c] = conds[c]

list_rows(t) == db[t]

create_payload_All(t, data) == data

create_payload(t, data) == Restrict(data, Schema[t].cols)

\* What INSERT stores for the payload: the supplied values, the next
\* auto-increment value, the server default or NULL for the other columns.
InsertedRow(t, payload) ==
    [c \in Schema[t].cols |->
        IF c \in DOMAIN payload THEN payload[c]
        ELSE IF c \in Schema[t].autoinc THEN NextId(db[t])
        ELSE ServerDefault(c)]

\* insert().values() refuses a name that is no column of the table; the
\* database refuses a NOT NULL column left without a value and a duplicate
\* primary key.
InsertError(t, payload) ==
    IF DOMAIN payload \ Schema[t].cols # {} THEN "CompileError"
    ELSE IF Schema[t].required \ DOMAIN payload # {} THEN "IntegrityError"
    ELSE IF /\ Schema[t].pks # {}
            /\ \E i \in DOMAIN db[t] :
                 \A c \in Schema[t].pks : db[t][i][c] = InsertedRow(t, payload)[c]
    THEN "IntegrityError"
    ELSE ""

\* The rows of a table with the new row: in primary-key order (the clustered
\* index) when the table has the key id, in insertion order otherwise.
Stored(t, rows, row) ==
    IF "id" \in Schema[t].pks
    THEN LET Before(r) == r.id < row.id
             After(r) == r.id > row.id
         IN  SelectSeq(rows, Before) \o <<row>> \o SelectSeq(rows, After)
    ELSE Append(rows, row)

create_row(t, data) ==
    LET payload == create_payload(t, data)
        exc == InsertError(t, payload)
    IN  IF exc # ""
        THEN [exc |-> exc, rows |-> db[t]]
        ELSE [exc |-> "", rows |-> Stored(t, db[t], InsertedRow(t, payload))]

update_payload(t, pk_values, data) ==
    Restrict(data, Schema[t].cols \ DOMAIN pk_values)

update_row(t, pk_values, data) ==
    LET payload == update_payload(t, pk_values, data)
        f == row_identity_filter(t, pk_values)
    IN  IF f.exc # ""
        THEN [exc |-> f.exc, rows |-> db[t]]
        ELSE [exc |-> "",
              rows |-> [i \in DOMAIN db[t] |->
                  IF Matches(db[t][i], f.conds)
                  THEN [c \in Schema[t].cols |->
                          IF c \in DOMAIN payload THEN payload[c] ELSE db[t][i][c]]
                  ELSE db[t][i]]]

delete_row(t, pk_values) ==
    LET f == row_identity_filter(t, pk_values)
        Keep(row) == ~Matches(row, f.conds)
    IN  IF f.exc # ""
        THEN [exc |-> f.exc, rows |-> db[t]]
        ELSE [exc |-> "", rows |-> SelectSeq(db[t], Keep)]

----------------------------------------------------------------------------
(* config.py *)

TABLE_UI_RULES ==
    [plog |-> [disable_create |-> TRUE, disable_update |-> TRUE,
               disable_delete |-> TRUE, disable_edit_ui |-> FALSE],
     player_alias |-> [disable_create |-> TRUE, disable_update |-> TRUE,
                       disable_delete |-> TRUE]]

\* TABLE_UI_RULES.get(table_name, {}).get(flag, False)
Rule(table_name, flag) ==
    /\ table_name \in DOMAIN TABLE_UI_RULES
    /\ flag \in DOMAIN TABLE_UI_RULES[table_name]
    /\ TABLE_UI_RULES[table_name][flag]

----------------------------------------------------------------------------
(* routers/table_routes.py *)

require_login_NoCheck(s) == [exc |-> 0, uid |-> get_user_id(s)]

\* exc is the status of the HTTPException raised, 0 when none is.
require_login(s) ==
    IF get_user_id(s) = NoUser
    THEN [exc |-> 401, uid |-> NoUser]
    ELSE [exc |-> 0, uid |-> get_user_id(s)]

tables(referer) ==
    /\ CanServe
    /\ UNCHANGED txs
    /\ req' = Request("tables", NoCtx, NoForm, referer)
    /\ LET r == require_login(session)
       IN  IF r.exc # 0 THEN Raise(r.exc)
           ELSE /\ session' = session
                /\ resp' = TemplateResponse("tables.html",
                      [tables |-> {t \in ApplicationTables : can(r.uid, t, "view")}])
    /\ toggles' = <<>>
    /\ UNCHANGED <<authVars, permVars, dataVars>>

table_perms(uid, table_name) ==
    LET pks == primary_key_columns(table_name)
    IN  [view |-> can(uid, table_name, "view"),
         create |-> /\ can(uid, table_name, "create")
                    /\ ~Rule(table_name, "disable_create"),
         update |-> /\ can(uid, table_name, "update")
                    /\ pks # {}
                    /\ ~Rule(table_name, "disable_update")
                    /\ ~Rule(table_name, "disable_edit_ui"),
         delete |-> /\ can(uid, table_name, "delete")
                    /\ pks # {}
                    /\ ~Rule(table_name, "disable_delete")]

table_view(table_name, referer) ==
    /\ CanServe
    /\ UNCHANGED txs
    /\ req' = Request("table_view", [table_name |-> table_name], NoForm, referer)
    /\ LET r == require_login(session)
       IN  IF r.exc # 0 THEN Raise(r.exc)
           ELSE IF ~can(r.uid, table_name, "view") THEN Raise(403)
           ELSE IF ~TableExists(table_name) THEN Crash("NoSuchTableError")
           ELSE /\ session' = session
                /\ resp' = TemplateResponse("table.html",
                      [table |-> table_name,
                       rows |-> list_rows(table_name),
                       perms |-> table_perms(r.uid, table_name)])
    /\ toggles' = <<>>
    /\ UNCHANGED <<authVars, permVars, dataVars>>

create_denied_Never(uid, table_name) == FALSE

create_denied(uid, table_name) ==
    \/ ~can(uid, table_name, "create")
    \/ Rule(table_name, "disable_create")

table_create(table_name, form, referer) ==
    /\ CanServe
    /\ UNCHANGED txs
    /\ req' = Request("table_create", [table_name |-> table_name], form, referer)
    /\ LET r == require_login(session)
       IN  IF r.exc # 0 THEN Raise(r.exc) /\ db' = db
           ELSE IF create_denied(r.uid, table_name) THEN Raise(403) /\ db' = db
           ELSE IF ~TableExists(table_name)
           THEN Crash("NoSuchTableError") /\ db' = db
           ELSE LET c == create_row(table_name, form)
                IN  IF c.exc # "" THEN Crash(c.exc) /\ db' = db
                    ELSE /\ Len(c.rows) <= MaxRows
                         /\ \A i \in DOMAIN c.rows :
                              "id" \in DOMAIN c.rows[i] => c.rows[i].id <= MaxId
                         /\ db' = [db EXCEPT ![table_name] = c.rows]
                         /\ session' = session
                         /\ resp' = RedirectResponse(<<"/table", table_name>>)
    /\ toggles' = <<>>
    /\ UNCHANGED <<authVars, permVars, kvstore>>

update_denied_NoRules(uid, table_name) == ~can(uid, table_name, "update")

update_denied(uid, table_name) ==
    \/ ~can(uid, table_name, "update")
    \/ Rule(table_name, "disable_update")

\* pk_values = {pk: form[f"pk_{pk}"] for pk in pks}: KeyError when a field is missing.
FormPkError(table_name, form) ==
    \E c \in primary_key_columns(table_name) : PkField[c] \notin DOMAIN form

FormPkValues(table_name, form) ==
    [c \in primary_key_columns(table_name) |-> form[PkField[c]]]

FormData(form) == Restrict(form, {k \in DOMAIN form : ~IsPkField(k)})

\* update().values() without any column does not run as an UPDATE statement:
\* the outcome (an error or a statement that changes nothing) is the driver's.
EmptyUpdateOutcomes == {"", "ProgrammingError"}

table_update(table_name, form, referer) ==
    /\ CanServe
    /\ UNCHANGED txs
    /\ req' = Request("table_update", [table_name |-> table_name], form, referer)
    /\ LET r == require_login(session)
       IN  IF r.exc # 0 THEN Raise(r.exc) /\ db' = db
           ELSE IF update_denied(r.uid, table_name) THEN Raise(403) /\ db' = db
           ELSE IF ~TableExists(table_name)
           THEN Crash("NoSuchTableError") /\ db' = db
           ELSE IF FormPkError(table_name, form) THEN Crash("KeyError") /\ db' = db
           ELSE LET pk_values == FormPkValues(table_name, form)
                    data == FormData(form)
                    u == update_row(table_name, pk_values, data)
                IN  IF u.exc # "" THEN Crash(u.exc) /\ db' = db
                    ELSE IF DOMAIN update_payload(table_name, pk_values, data) = {}
                    THEN \E exc \in EmptyUpdateOutcomes :
                            /\ db' = db
                            /\ IF exc # "" THEN Crash(exc)
                               ELSE /\ session' = session
                                    /\ resp' = RedirectResponse(<<"/table", table_name>>)
                    ELSE /\ db' = [db EXCEPT ![table_name] = u.rows]
                         /\ session' = session
                         /\ resp' = RedirectResponse(<<"/table", table_name>>)
    /\ toggles' = <<>>
    /\ UNCHANGED <<authVars, permVars, kvstore>>

delete_denied(uid, table_name) ==
    \/ ~can(uid, table_name, "delete")
    \/ Rule(table_name, "disable_delete")

table_delete(table_name, form, referer) ==
    /\ CanServe
    /\ UNCHANGED txs
    /\ req' = Request("table_delete", [table_name |-> table_name], form, referer)
    /\ LET r == require_login(session)
       IN  IF r.exc # 0 THEN Raise(r.exc) /\ db' = db
           ELSE IF delete_denied(r.uid, table_name) THEN Raise(403) /\ db' = db
           ELSE IF ~TableExists(table_name)
           THEN Crash("NoSuchTableError") /\ db' = db
           ELSE IF FormPkError(table_name, form) THEN Crash("KeyError") /\ db' = db
           ELSE LET d == delete_row(table_name, FormPkValues(table_name, form))
                IN  IF d.exc # "" THEN Crash(d.exc) /\ db' = db
                    ELSE /\ db' = [db EXCEPT ![table_name] = d.rows]
                         /\ session' = session
                         /\ resp' = RedirectResponse(<<"/table", table_name>>)
    /\ toggles' = <<>>
    /\ UNCHANGED <<authVars, permVars, kvstore>>

----------------------------------------------------------------------------
(* routers/admin_players.py *)

\* exc is the status of the HTTPException raised, 0 when none is.
require_admin(s) ==
    LET uid == get_user_id(s)
    IN  IF uid = NoUser THEN [exc |-> 401, uid |-> NoUser]
        ELSE IF is_admin(uid) THEN [exc |-> 0, uid |-> uid]
        ELSE IF ~can_admin_panel(uid, "admin_access") THEN [exc |-> 403, uid |-> uid]
        ELSE [exc |-> 0, uid |-> uid]

\* WHERE id=:id AND player_pid=:pid
IsCase(row, uid, case_id) == row.id = case_id /\ row.player_pid = uid

support_edit(uid, case_id, referer) ==
    /\ CanServe
    /\ UNCHANGED txs
    /\ req' = Request("support_edit", [uid |-> uid, case_id |-> case_id],
                      NoForm, referer)
    /\ LET r == require_admin(session)
           cases == db["support_cases"]
           id == int(case_id)
       IN  IF ~is_int(case_id) THEN RequestValidationError
           ELSE IF r.exc # 0 THEN Raise(r.exc)
           ELSE IF ~\E i \in DOMAIN cases : IsCase(cases[i], uid, id)
           THEN Raise(404)
           ELSE /\ session' = session
                /\ resp' = TemplateResponse("support_edit.html",
                      [uid |-> uid,
                       case |-> cases[CHOOSE i \in DOMAIN cases :
                                        IsCase(cases[i], uid, id)]])
    /\ toggles' = <<>>
    /\ UNCHANGED <<authVars, permVars, dataVars>>

\* The status of the case the request addresses, "" when there is none.
StatusOf(cases, uid, case_id) ==
    IF \E i \in DOMAIN cases : IsCase(cases[i], uid, case_id)
    THEN cases[CHOOSE i \in DOMAIN cases : IsCase(cases[i], uid, case_id)].status
    ELSE ""

Latest2(s) == IF Len(s) > 2 THEN SubSeq(s, 1, 2) ELSE s

toggled_KeepsClosed(status) == IF status = "open" THEN "closed" ELSE status

\* CASE WHEN status='open' THEN 'closed' ELSE 'open' END
toggled(status) == IF status = "open" THEN "closed" ELSE "open"

support_toggle_status(uid, case_id, referer) ==
    /\ CanServe
    /\ UNCHANGED txs
    /\ req' = Request("support_toggle_status", [uid |-> uid, case_id |-> case_id],
                      NoForm, referer)
    /\ LET r == require_admin(session)
           cases == db["support_cases"]
           id == int(case_id)
       IN  IF ~is_int(case_id)
           THEN RequestValidationError /\ db' = db /\ toggles' = <<>>
           ELSE IF r.exc # 0
           THEN Raise(r.exc) /\ db' = db /\ toggles' = <<>>
           ELSE /\ db' = [db EXCEPT !["support_cases"] =
                        [i \in DOMAIN cases |->
                            IF IsCase(cases[i], uid, id)
                            THEN [cases[i] EXCEPT !.status = toggled(@)]
                            ELSE cases[i]]]
                /\ session' = flash(session, "Status geaendert.", "info")
                /\ resp' = RedirectResponse(<<"/admin/players", uid, "support">>)
                /\ toggles' = Latest2(<<[uid |-> uid, case_id |-> id,
                                         before |-> StatusOf(cases, uid, id)]>>
                                       \o toggles)
    /\ UNCHANGED <<authVars, permVars, kvstore>>

----------------------------------------------------------------------------
(* routers/admin_routes.py *)

\* exc is the status of the HTTPException raised, 0 when none is.
panel_require_admin(s) ==
    LET uid == get_user_id(s)
    IN  IF uid = NoUser THEN [exc |-> 401, uid |-> NoUser]
        ELSE IF is_admin(uid) THEN [exc |-> 0, uid |-> uid]
        ELSE IF ~can_admin_panel(uid, "admin_access") THEN [exc |-> 403, uid |-> uid]
        ELSE [exc |-> 0, uid |-> uid]

panel_allowed_RowOnly(uid, action) == can_admin_panel(uid, action)

panel_allowed_Always(uid, action) == TRUE

\* is_admin(db, uid) or can_admin_panel(db, uid, action)
panel_allowed(uid, action) == is_admin(uid) \/ can_admin_panel(uid, action)

\* A handler that answers with a flash message and a redirect.
FlashRedirect(message, category, location) ==
    /\ session' = flash(session, message, category)
    /\ resp' = RedirectResponse(location)

toggle_user(user_id, referer) ==
    /\ CanServe
    /\ UNCHANGED txs
    /\ req' = Request("toggle_user", [user_id |-> user_id], NoForm, referer)
    /\ LET r == panel_require_admin(session)
       IN  IF ~is_int(user_id) THEN RequestValidationError /\ admin_users' = admin_users
           ELSE IF r.exc # 0 THEN Raise(r.exc) /\ admin_users' = admin_users
           ELSE IF ~panel_allowed(r.uid, "user_toggle")
           THEN /\ FlashRedirect("Keine Berechtigung: Aktiv/Inaktiv.", "danger",
                                 <<"/admin/users">>)
                /\ admin_users' = admin_users
           ELSE /\ admin_users' =
                     [id \in DOMAIN admin_users |->
                        IF id = int(user_id)
                        THEN [admin_users[id] EXCEPT
                                !.is_active = IF @ = 1 THEN 0 ELSE 1]
                        ELSE admin_users[id]]
                /\ FlashRedirect("User-Status geaendert.", "info", <<"/admin/users">>)
    /\ toggles' = <<>>
    /\ UNCHANGED <<admin_roles, admin_user_roles, permVars, dataVars>>

add_role(user_id, role_id, referer) ==
    /\ CanServe
    /\ UNCHANGED txs
    /\ req' = Request("add_role", [user_id |-> user_id], [role_id |-> role_id], referer)
    /\ LET r == panel_require_admin(session)
       IN  IF ~is_int(user_id) \/ ~is_int(role_id)
           THEN RequestValidationError /\ admin_user_roles' = admin_user_roles
           ELSE IF r.exc # 0 THEN Raise(r.exc) /\ admin_user_roles' = admin_user_roles
           ELSE IF ~panel_allowed(r.uid, "user_role_add")
           THEN /\ FlashRedirect("Keine Berechtigung: Rolle hinzufuegen.", "danger",
                                 <<"/admin/users">>)
                /\ admin_user_roles' = admin_user_roles
           ELSE /\ admin_user_roles' = admin_user_roles \cup {<<int(user_id), int(role_id)>>}
                /\ FlashRedirect("Rolle hinzugefuegt.", "success", <<"/admin/users">>)
    /\ toggles' = <<>>
    /\ UNCHANGED <<admin_users, admin_roles, permVars, dataVars>>

remove_role(user_id, role_id, referer) ==
    /\ CanServe
    /\ UNCHANGED txs
    /\ req' = Request("remove_role", [user_id |-> user_id], [role_id |-> role_id],
                      referer)
    /\ LET r == panel_require_admin(session)
       IN  IF ~is_int(user_id) \/ ~is_int(role_id)
           THEN RequestValidationError /\ admin_user_roles' = admin_user_roles
           ELSE IF r.exc # 0 THEN Raise(r.exc) /\ admin_user_roles' = admin_user_roles
           ELSE IF ~panel_allowed(r.uid, "user_role_remove")
           THEN /\ FlashRedirect("Keine Berechtigung: Rolle entfernen.", "danger",
                                 <<"/admin/users">>)
                /\ admin_user_roles' = admin_user_roles
           ELSE /\ admin_user_roles' = admin_user_roles \ {<<int(user_id), int(role_id)>>}
                /\ FlashRedirect("Rolle entfernt.", "warning", <<"/admin/users">>)
    /\ toggles' = <<>>
    /\ UNCHANGED <<admin_users, admin_roles, permVars, dataVars>>

\* The form of the permissions page: role_id (0 when the field is missing)
\* and the checkbox keys sent, <<t, a>> for "{t}__{a}", <<"ap", a>> for "ap__{a}".
PermForm(role_id, keys) == [role_id |-> role_id, keys |-> keys]

checked_Always(form, key) == 1

\* 1 if key in form else 0
checked(form, key) == IF key \in form.keys THEN 1 ELSE 0

SavedPanelRow(form) ==
    [c \in {ADMIN_ACTION_COL[a] : a \in DOMAIN ADMIN_ACTION_COL} |->
        checked(form, <<"ap", CHOOSE a \in DOMAIN ADMIN_ACTION_COL :
                                ADMIN_ACTION_COL[a] = c>>)]

SavedTableRow(form, tname) ==
    [c \in {ACTION_COL[a] : a \in DOMAIN ACTION_COL} |->
        checked(form, <<tname, CHOOSE a \in DOMAIN ACTION_COL : ACTION_COL[a] = c>>)]

\* INSERT ... ON DUPLICATE KEY UPDATE: the row of the key, created or replaced.
Upsert(table, key, row) ==
    [k \in DOMAIN table \cup {key} |-> IF k = key THEN row ELSE table[k]]

save_permissions(form, referer) ==
    /\ CanServe
    /\ UNCHANGED txs
    /\ req' = Request("save_permissions", NoCtx, form, referer)
    /\ LET r == panel_require_admin(session)
       IN  IF r.exc # 0
           THEN Raise(r.exc) /\ UNCHANGED <<admin_permissions, admin_panel_permissions>>
           ELSE IF ~panel_allowed(r.uid, "permissions_edit")
           THEN Raise(403) /\ UNCHANGED <<admin_permissions, admin_panel_permissions>>
           ELSE IF form.role_id = 0
           THEN /\ FlashRedirect("role_id fehlt.", "danger", <<"/admin/permissions">>)
                /\ UNCHANGED <<admin_permissions, admin_panel_permissions>>
           ELSE /\ admin_panel_permissions' =
                     Upsert(admin_panel_permissions, form.role_id, SavedPanelRow(form))
                /\ admin_permissions' =
                     [k \in DOMAIN admin_permissions
                            \cup ({form.role_id} \X ApplicationTables) |->
                        IF k[1] = form.role_id /\ k[2] \in ApplicationTables
                        THEN SavedTableRow(form, k[2])
                        ELSE admin_permissions[k]]
                /\ FlashRedirect("Rechte gespeichert.", "success",
                                 <<"/admin/permissions?role_id=", form.role_id>>)
    /\ toggles' = <<>>
    /\ UNCHANGED <<authVars, admin_kv_permissions, dataVars>>

----------------------------------------------------------------------------
(* routers/admin_players.py: the info fields of a player *)

require_current_uid(s) ==
    LET uid == get_user_id(s)
    IN  IF uid = NoUser THEN [exc |-> 401, uid |-> NoUser] ELSE [exc |-> 0, uid |-> uid]

SIDE_LABEL == [s \in 0..2 |-> CASE s = 0 -> "Ziv" [] s = 1 -> "Cop" [] OTHER -> "UNCDA"]

fields ==
    <<"name", "level", "pt", "cash", "bank", "address", "town", "birthday",
      "birthlocation", "eyecolor", "height">>

\* A text is the sequence of its characters.
Whitespace == {" ", "\t", "\n"}

RECURSIVE lstrip(_)
lstrip(text) ==
    IF text # <<>> /\ Head(text) \in Whitespace THEN lstrip(Tail(text)) ELSE text

RECURSIVE rstrip(_)
rstrip(text) ==
    IF text # <<>> /\ text[Len(text)] \in Whitespace
    THEN rstrip(SubSeq(text, 1, Len(text) - 1))
    ELSE text

strip_Nothing(text) == text

strip(text) == rstrip(lstrip(text))

\* A form value is a text or an uploaded file.
Str(text) == [kind |-> "str", text |-> text]

UploadFile == [kind |-> "file", text |-> <<>>]

\* INSERT INTO kvstore ... VALUES (:pid, :k, :side, :v, 'STRING')
\* ON DUPLICATE KEY UPDATE v = VALUES(v), t = VALUES(t)
kv_upsert(kv, key, val) ==
    [k \in DOMAIN kv \cup {key} |-> IF k = key THEN [v |-> val, t |-> "STRING"] ELSE kv[k]]

\* The loop over fields from the i-th on, inside the transaction: exc is the
\* exception that ended it ("" when it ran to its end), kv the store it wrote.
RECURSIVE save_fields(_, _, _, _, _, _)
save_fields(i, kv, current_uid, pid, side, form) ==
    IF i > Len(fields) THEN [exc |-> "", kv |-> kv, wrote_any |-> FALSE]
    ELSE LET f == fields[i]
         IN  IF ~can_kv_field(current_uid, side, f)
             THEN save_fields(i + 1, kv, current_uid, pid, side, form)
             ELSE IF f \in DOMAIN form /\ form[f].kind = "file"
             THEN [exc |-> "AttributeError", kv |-> kv, wrote_any |-> FALSE]
             ELSE LET val == strip(IF f \in DOMAIN form THEN form[f].text ELSE <<>>)
                  IN  IF val = <<>>
                      THEN save_fields(i + 1, kv, current_uid, pid, side, form)
                      ELSE [save_fields(i + 1, kv_upsert(kv, <<pid, f, side>>, val),
                                        current_uid, pid, side, form)
                                EXCEPT !.wrote_any = TRUE]

engine_begin_Autocommit(before, out) == out.kv

\* with engine.begin() as conn: the writes of the block are committed when it
\* ends, rolled back when an exception leaves it.
engine_begin(before, out) == IF out.exc # "" THEN before ELSE out.kv

InfoSaved(side) ==
    CASE side = 0 -> "Info gespeichert (Ziv)."
      [] side = 1 -> "Info gespeichert (Cop)."
      [] OTHER -> "Info gespeichert (UNCDA)."

NothingSaved(side) ==
    CASE side = 0 -> "Keine Aenderungen gespeichert (Ziv)."
      [] side = 1 -> "Keine Aenderungen gespeichert (Cop)."
      [] OTHER -> "Keine Aenderungen gespeichert (UNCDA)."

save_player_info_side(uid, side, form, referer) ==
    /\ CanServe
    /\ UNCHANGED txs
    /\ req' = Request("save_player_info_side", [uid |-> uid, side |-> side],
                      form, referer)
    /\ LET r == require_admin(session)
           s == int(side)
           out == save_fields(1, kvstore, require_current_uid(session).uid, uid, s, form)
       IN  IF ~is_int(side) THEN RequestValidationError /\ kvstore' = kvstore
           ELSE IF r.exc # 0 THEN Raise(r.exc) /\ kvstore' = kvstore
           ELSE IF s \notin {0, 1, 2} THEN Raise(400) /\ kvstore' = kvstore
           ELSE IF out.exc # "" THEN Crash(out.exc) /\ kvstore' = engine_begin(kvstore, out)
           ELSE /\ kvstore' = engine_begin(kvstore, out)
                /\ FlashRedirect(
                      IF out.wrote_any THEN InfoSaved(s) ELSE NothingSaved(s),
                      IF out.wrote_any THEN "success" ELSE "warning",
                      <<"/admin/players", uid, "?tab=info">>)
    /\ toggles' = <<>>
    /\ UNCHANGED <<authVars, permVars, db>>

----------------------------------------------------------------------------
(* routers/admin_routes.py: creating users and roles. The texts of these    *)
(* requests are strings; Chars spells each one out so that strip and len    *)
(* work on its characters.                                                   *)

\* A required Form(...) field the request does not carry.
Missing == "(missing)"

Chars(s) ==
    CASE s = " neo " -> <<" ", "n", "e", "o", " ">>
      [] s = "neo" -> <<"n", "e", "o">>
      [] s = "ab " -> <<"a", "b", " ">>
      [] s = "ab" -> <<"a", "b">>
      [] s = "root" -> <<"r", "o", "o", "t">>
      [] s = "pw-neo-1" -> <<"p", "w", "-", "n", "e", "o", "-", "1">>
      [] s = "short" -> <<"s", "h", "o", "r", "t">>
      [] s = " mod" -> <<" ", "m", "o", "d">>
      [] s = "mod" -> <<"m", "o", "d">>
      [] s = " \t" -> <<" ", "\t">>
      [] s = "admin" -> <<"a", "d", "m", "i", "n">>
      [] OTHER -> <<>>

Texts ==
    {" neo ", "neo", "ab ", "ab", "root", "pw-neo-1", "short", " mod", "mod",
     " \t", "admin", ""}

\* s.strip()
str_strip(s) == CHOOSE t \in Texts : Chars(t) = strip(Chars(s))

\* len(s)
len(s) == Len(Chars(s))

\* The id AUTO_INCREMENT gives the next row of a table keyed 1..n.
NextKey(table) == Cardinality(DOMAIN table) + 1

create_user(username, password, referer) ==
    /\ CanServe
    /\ UNCHANGED txs
    /\ req' = Request("create_user", NoCtx,
                      [username |-> username, password |-> password], referer)
    /\ LET r == panel_require_admin(session)
           name == str_strip(username)
       IN  IF username = Missing \/ password = Missing
           THEN RequestValidationError /\ admin_users' = admin_users
           ELSE IF r.exc # 0 THEN Raise(r.exc) /\ admin_users' = admin_users
           ELSE IF ~panel_allowed(r.uid, "user_create")
           THEN /\ FlashRedirect("Keine Berechtigung: User anlegen.", "danger",
                                 <<"/admin/users">>)
                /\ admin_users' = admin_users
           ELSE IF len(name) < 3
           THEN /\ FlashRedirect("Username zu kurz (min. 3).", "danger",
                                 <<"/admin/users">>)
                /\ admin_users' = admin_users
           ELSE IF len(password) < 8
           THEN /\ FlashRedirect("Passwort zu kurz (min. 8).", "danger",
                                 <<"/admin/users">>)
                /\ admin_users' = admin_users
           ELSE IF UserRows(name) # {}
           THEN /\ FlashRedirect("Username existiert bereits.", "danger",
                                 <<"/admin/users">>)
                /\ admin_users' = admin_users
           ELSE /\ admin_users' =
                     Upsert(admin_users, NextKey(admin_users),
                            [username |-> name,
                             password_hash |-> hash_password(password),
                             is_active |-> 1])
                /\ FlashRedirect("User erfolgreich angelegt.", "success",
                                 <<"/admin/users">>)
    /\ toggles' = <<>>
    /\ UNCHANGED <<admin_roles, admin_user_roles, permVars, dataVars>>

\* INSERT IGNORE INTO admin_roles (name): a name already there is skipped.
create_role(name, referer) ==
    /\ CanServe
    /\ UNCHANGED txs
    /\ req' = Request("create_role", NoCtx, [name |-> name], referer)
    /\ LET r == panel_require_admin(session)
           n == str_strip(name)
       IN  IF name = Missing
           THEN RequestValidationError /\ admin_roles' = admin_roles
           ELSE IF r.exc # 0 THEN Raise(r.exc) /\ admin_roles' = admin_roles
           ELSE IF ~panel_allowed(r.uid, "role_create")
           THEN /\ FlashRedirect("Keine Berechtigung: Rollen anlegen.", "danger",
                                 <<"/admin/roles">>)
                /\ admin_roles' = admin_roles
           ELSE IF n = ""
           THEN /\ FlashRedirect("Rollenname fehlt.", "danger", <<"/admin/roles">>)
                /\ admin_roles' = admin_roles
           ELSE /\ admin_roles' =
                     IF \E i \in DOMAIN admin_roles : admin_roles[i] = n
                     THEN admin_roles
                     ELSE Append(admin_roles, n)
                /\ FlashRedirect("Rolle erstellt.", "success", <<"/admin/roles">>)
    /\ toggles' = <<>>
    /\ UNCHANGED <<admin_users, admin_user_roles, permVars, dataVars>>

----------------------------------------------------------------------------
(* routers/admin_players.py: the support cases of a player. Of the text     *)
(* columns the model keeps case_type; area, supporter_name, scn and content *)
(* are written beside it in the same statement.                             *)

\* case_type: str = Form(...): the request is refused when the field is missing.
FormInvalid(form) == "case_type" \notin DOMAIN form

PlayerTab(uid, tab) == <<"/admin/players", uid, tab>>

support_create(uid, form, referer) ==
    /\ CanServe
    /\ UNCHANGED txs
    /\ req' = Request("support_create", [uid |-> uid], form, referer)
    /\ LET r == require_admin(session)
           cases == db["support_cases"]
       IN  IF FormInvalid(form) THEN RequestValidationError /\ db' = db
           ELSE IF r.exc # 0 THEN Raise(r.exc) /\ db' = db
           ELSE /\ Len(cases) < MaxRows
                /\ NextId(cases) <= MaxId
                /\ db' = [db EXCEPT !["support_cases"] =
                            Append(cases,
                                   [id |-> NextId(cases), player_pid |-> uid,
                                    case_type |-> strip(form.case_type),
                                    status |-> "open"])]
                /\ FlashRedirect("Supportfall erstellt.", "success",
                                 PlayerTab(uid, "?tab=support"))
    /\ toggles' = <<>>
    /\ UNCHANGED <<authVars, permVars, kvstore>>

coerced_Kept(status) == status

\* if status not in ("open", "closed"): status = "open"
coerced(status) == IF status \notin {"open", "closed"} THEN "open" ELSE status

\* status: str = Form("open")
FormStatus(form) == IF "status" \in DOMAIN form THEN form.status ELSE "open"

support_update(uid, case_id, form, referer) ==
    /\ CanServe
    /\ UNCHANGED txs
    /\ req' = Request("support_update", [uid |-> uid, case_id |-> case_id],
                      form, referer)
    /\ LET r == require_admin(session)
           cases == db["support_cases"]
           id == int(case_id)
       IN  IF ~is_int(case_id) \/ FormInvalid(form)
           THEN RequestValidationError /\ db' = db
           ELSE IF r.exc # 0 THEN Raise(r.exc) /\ db' = db
           ELSE /\ db' = [db EXCEPT !["support_cases"] =
                        [i \in DOMAIN cases |->
                            IF IsCase(cases[i], uid, id)
                            THEN [cases[i] EXCEPT
                                    !.case_type = strip(form.case_type),
                                    !.status = coerced(FormStatus(form))]
                            ELSE cases[i]]]
                /\ FlashRedirect("Supportfall gespeichert.", "success",
                                 PlayerTab(uid, "?tab=support"))
    /\ toggles' = <<>>
    /\ UNCHANGED <<authVars, permVars, kvstore>>

support_delete(uid, case_id, referer) ==
    /\ CanServe
    /\ UNCHANGED txs
    /\ req' = Request("support_delete", [uid |-> uid, case_id |-> case_id],
                      NoForm, referer)
    /\ LET r == require_admin(session)
           cases == db["support_cases"]
           id == int(case_id)
           Keep(row) == ~IsCase(row, uid, id)
       IN  IF ~is_int(case_id) THEN RequestValidationError /\ db' = db
           ELSE IF r.exc # 0 THEN Raise(r.exc) /\ db' = db
           ELSE /\ db' = [db EXCEPT !["support_cases"] = SelectSeq(cases, Keep)]
                /\ FlashRedirect("Supportfall geloescht.", "warning",
                                 PlayerTab(uid, "?tab=support"))
    /\ toggles' = <<>>
    /\ UNCHANGED <<authVars, permVars, kvstore>>

----------------------------------------------------------------------------
(* routers/admin_players.py: the vehicles. db["vehicles"] is kept beside    *)
(* the tables the generic routes serve; no role holds a permission row for  *)
(* it. ts_modified is "t0" until a statement sets it to the current time.   *)

IsVehicle(row, vehicle_id) == row.id = vehicle_id

vehicle_edit(vehicle_id, referer) ==
    /\ CanServe
    /\ UNCHANGED txs
    /\ req' = Request("vehicle_edit", [vehicle_id |-> vehicle_id], NoForm, referer)
    /\ LET r == require_admin(session)
           vs == db["vehicles"]
           id == int(vehicle_id)
       IN  IF ~is_int(vehicle_id) THEN RequestValidationError
           ELSE IF r.exc # 0 THEN Raise(r.exc)
           ELSE IF ~\E i \in DOMAIN vs : IsVehicle(vs[i], id) THEN Raise(404)
           ELSE /\ session' = session
                /\ resp' = TemplateResponse("vehicle_edit.html",
                      [v |-> vs[CHOOSE i \in DOMAIN vs : IsVehicle(vs[i], id)]])
    /\ toggles' = <<>>
    /\ UNCHANGED <<authVars, permVars, dataVars>>

\* str(v).lower() on the values the forms send
lower(v) ==
    CASE v = "TRUE" -> "true"
      [] v = "On" -> "on"
      [] OTHER -> v

cb(v) == IF lower(v) \in {"1", "true", "on", "yes"} THEN 1 ELSE 0

\* A checkbox or text field of the form, its default when it is not sent.
Field(form, k, default) == IF k \in DOMAIN form THEN form[k] ELSE default

\* SELECT pid FROM vehicles WHERE id=:id, None when there is no row
OwnerOf(vs, id) ==
    IF \E i \in DOMAIN vs : IsVehicle(vs[i], id)
    THEN vs[CHOOSE i \in DOMAIN vs : IsVehicle(vs[i], id)].pid
    ELSE "None"

vehicle_update(vehicle_id, form, referer) ==
    /\ CanServe
    /\ UNCHANGED txs
    /\ req' = Request("vehicle_update", [vehicle_id |-> vehicle_id], form, referer)
    /\ LET r == require_admin(session)
           vs == db["vehicles"]
           id == int(vehicle_id)
       IN  IF ~is_int(vehicle_id) \/ ~is_int(Field(form, "color", "0"))
           THEN RequestValidationError /\ db' = db
           ELSE IF r.exc # 0 THEN Raise(r.exc) /\ db' = db
           ELSE /\ db' = [db EXCEPT !["vehicles"] =
                        [i \in DOMAIN vs |->
                            IF IsVehicle(vs[i], id)
                            THEN [vs[i] EXCEPT
                                    !.alive = cb(Field(form, "alive", "0")),
                                    !.active = cb(Field(form, "active", "0")),
                                    !.sold = cb(Field(form, "sold", "0")),
                                    !.locked = cb(Field(form, "locked", "0")),
                                    !.color = int(Field(form, "color", "0")),
                                    !.trunk = Field(form, "trunk", ""),
                                    !.ts_modified = "now"]
                            ELSE vs[i]]]
                /\ FlashRedirect("Fahrzeug gespeichert.", "success",
                                 PlayerTab(OwnerOf(vs, id), "?tab=vehicles"))
    /\ toggles' = <<>>
    /\ UNCHANGED <<authVars, permVars, kvstore>>

allowed_Any ==
    {"restore", "lock", "unlock", "sell", "unsell", "kill", "revive", "explode"}

allowed == {"restore", "lock", "unlock", "sell", "unsell", "kill", "revive"}

\* sets[action] applied to a row; an action without an entry ends the
\* handler with KeyError.
sets(action, row) ==
    CASE action = "restore" -> [row EXCEPT !.active = 1, !.sold = 0, !.alive = 1]
      [] action = "lock" -> [row EXCEPT !.locked = 1]
      [] action = "unlock" -> [row EXCEPT !.locked = 0]
      [] action = "sell" -> [row EXCEPT !.sold = 1]
      [] action = "unsell" -> [row EXCEPT !.sold = 0]
      [] action = "kill" -> [row EXCEPT !.alive = 0]
      [] OTHER -> [row EXCEPT !.alive = 1]

QuickActionMsg(action) ==
    CASE action = "restore" -> "Quick-Action: restore"
      [] action = "lock" -> "Quick-Action: lock"
      [] action = "unlock" -> "Quick-Action: unlock"
      [] action = "sell" -> "Quick-Action: sell"
      [] action = "unsell" -> "Quick-Action: unsell"
      [] action = "kill" -> "Quick-Action: kill"
      [] OTHER -> "Quick-Action: revive"

vehicle_quick_action(vehicle_id, action, referer) ==
    /\ CanServe
    /\ UNCHANGED txs
    /\ req' = Request("vehicle_quick_action",
                      [vehicle_id |-> vehicle_id, action |-> action], NoForm, referer)
    /\ LET r == require_admin(session)
           vs == db["vehicles"]
           id == int(vehicle_id)
       IN  IF ~is_int(vehicle_id) THEN RequestValidationError /\ db' = db
           ELSE IF r.exc # 0 THEN Raise(r.exc) /\ db' = db
           ELSE IF action \notin allowed THEN Raise(400) /\ db' = db
           ELSE IF action \notin
                     {"restore", "lock", "unlock", "sell", "unsell", "kill", "revive"}
           THEN Crash("KeyError") /\ db' = db
           ELSE /\ db' = [db EXCEPT !["vehicles"] =
                        [i \in DOMAIN vs |->
                            IF IsVehicle(vs[i], id)
                            THEN [sets(action, vs[i]) EXCEPT !.ts_modified = "now"]
                            ELSE vs[i]]]
                /\ FlashRedirect(QuickActionMsg(action), "info",
                                 PlayerTab(OwnerOf(vs, id), "?tab=vehicles"))
    /\ toggles' = <<>>
    /\ UNCHANGED <<authVars, permVars, kvstore>>

----------------------------------------------------------------------------
(* The deployment the model starts from, and the inputs of the requests *)

Flags(v, c, u, d) ==
    [can_view |-> v, can_create |-> c, can_update |-> u, can_delete |-> d]

PanelFlags(a, uc, ut, ura, urr, rc, pe) ==
    [can_admin_access |-> a, can_user_create |-> uc, can_user_toggle |-> ut,
     can_user_role_add |-> ura, can_user_role_remove |-> urr,
     can_role_create |-> rc, can_permissions_edit |-> pe]

\* Users: root holds the role admin, supp the role support, guest no role,
\* old is a deactivated support account.
InitUsers ==
    [i \in 1..4 |->
        CASE i = 1 -> [username |-> "root", password_hash |-> hash_password("pw-root"),
                       is_active |-> 1]
          [] i = 2 -> [username |-> "supp", password_hash |-> hash_password("pw-supp"),
                       is_active |-> 1]
          [] i = 3 -> [username |-> "guest", password_hash |-> hash_password("pw-guest"),
                       is_active |-> 1]
          [] OTHER -> [username |-> "old", password_hash |-> hash_password("pw-old"),
                       is_active |-> 0]]

InitRoles == [i \in 1..2 |-> IF i = 1 THEN "admin" ELSE "support"]

InitUserRoles == {<<1, 1>>, <<2, 2>>, <<4, 2>>}

\* "gone" is a table dropped after its permission rows were saved.
TableNames == DOMAIN Schema \cup {"gone"}

\* The role admin holds every flag but create on slog; the role support
\* reads plog, works on support_cases and may change and delete in slog.
InitPermissions ==
    [k \in {1, 2} \X TableNames |->
        CASE k[2] = "slog" -> Flags(1, 0, 1, 1)
          [] k[2] = "support_cases" -> Flags(1, 1, 1, 1)
          [] k[1] = 1 -> Flags(1, 1, 1, 1)
          [] k[2] = "plog" -> Flags(1, 0, 0, 0)
          [] OTHER -> Flags(0, 0, 0, 0)]

InitPanelPermissions ==
    [r \in {1, 2} |->
        IF r = 1 THEN PanelFlags(1, 1, 1, 1, 1, 1, 1)
        ELSE PanelFlags(1, 0, 0, 0, 0, 0, 0)]

InitKvPermissions ==
    {[role_id |-> 2, side |-> 0, field_name |-> "name", can_edit |-> 1],
     [role_id |-> 2, side |-> 0, field_name |-> "cash", can_edit |-> 0],
     [role_id |-> 2, side |-> 1, field_name |-> "level", can_edit |-> 1]}

InitDb ==
    [plog |-> <<[id |-> 1, msg |-> "a"]>>,
     slog |-> <<[msg |-> "a"]>>,
     tags |-> <<[pid |-> "p1", k |-> "a", v |-> "1"],
                [pid |-> "p1", k |-> "b", v |-> "2"]>>,
     support_cases |-> <<[id |-> 1, player_pid |-> "p1", case_type |-> <<"a">>,
                          status |-> "open"]>>,
     vehicles |-> <<[id |-> 1, pid |-> "p1", alive |-> 1, active |-> 1, sold |-> 0,
                     locked |-> 0, color |-> 0, trunk |-> "[]",
                     ts_modified |-> "t0"]>>]

\* The clients whose info saves may run side by side.
Procs == {"A", "B"}

NoWrites == [k \in {} |-> <<>>]

Idle ==
    [pc |-> "idle", user |-> NoUser, uid |-> "", side |-> 0, form |-> NoForm,
     i |-> 0, writes |-> NoWrites]

InitTxs == [t |-> [p \in Procs |-> Idle], hist |-> <<>>]

\* p1 has a name, cash and gear as civilian, p2 a name as cop.
InitKvstore ==
    (<<"p1", "name", 0>> :> [v |-> <<"A", "l">>, t |-> "STRING"])
    @@ (<<"p1", "cash", 0>> :> [v |-> <<"5">>, t |-> "SCALAR"])
    @@ (<<"p1", "gear", 0>> :> [v |-> <<"[", "]">>, t |-> "ARRAY"])
    @@ (<<"p2", "name", 1>> :> [v |-> <<"Z">>, t |-> "STRING"])

Init ==
    /\ session = [user_id |-> NoUser, flash |-> <<>>]
    /\ admin_users = InitUsers
    /\ admin_roles = InitRoles
    /\ admin_user_roles = InitUserRoles
    /\ admin_permissions = InitPermissions
    /\ admin_panel_permissions = InitPanelPermissions
    /\ admin_kv_permissions = InitKvPermissions
    /\ db = InitDb
    /\ kvstore = InitKvstore
    /\ req = Request("", NoCtx, NoForm, NoReferer)
    /\ resp = Response(0, <<>>, "", NoCtx, "")
    /\ toggles = <<>>
    /\ txs = InitTxs

Usernames == {"root", "supp", "guest", "old", "nobody"}

Passwords == {"pw-root", "pw-supp", "pw-guest", "pw-old"}

Referers == {NoReferer, <<"/tables">>}

\* A form of the generic table routes: the fields whose value is not the
\* blank of its column ("" or 0) are the ones submitted.
MkForm(r) == Restrict(r, {k \in DOMAIN r : r[k] # IF k \in {"pk_id", "id"} THEN 0 ELSE ""})

CreateForms(table_name) ==
    CASE table_name = "support_cases" ->
            {MkForm([id |-> a, status |-> b, player_pid |-> c, bogus |-> d])
                    @@ [case_type |-> <<"a">>] :
                a \in {0, 1}, b \in {"", "pending"}, c \in {"", "p1"}, d \in {"", "x"}}
      [] table_name = "gone" -> {NoForm}
      [] OTHER -> {[msg |-> "b"]}

UpdateForms(table_name) ==
    CASE table_name = "support_cases" ->
            {MkForm([pk_id |-> a, status |-> b]) :
                a \in {0, 1, 2}, b \in {"", "pending"}}
      [] table_name = "plog" -> {[pk_id |-> 1, msg |-> "b"]}
      [] table_name = "slog" -> {[msg |-> "b"], [pk_msg |-> "a", msg |-> "b"]}
      [] table_name = "tags" ->
            {[pk_pid |-> "p1", pk_k |-> "a", v |-> "9"],
             [pk_pid |-> "p1", pk_k |-> "a", pid |-> "p2", v |-> "9"],
             [pk_pid |-> "p2", pk_k |-> "b", v |-> "9"]}
      [] OTHER -> {NoForm}

DeleteForms(table_name) ==
    CASE table_name = "support_cases" -> {MkForm([pk_id |-> a]) : a \in {0, 1, 2}}
      [] table_name = "plog" -> {[pk_id |-> 1]}
      [] table_name = "slog" -> {NoForm, [pk_msg |-> "a"]}
      [] table_name = "tags" -> {[pk_pid |-> "p1", pk_k |-> "b"], [pk_k |-> "b"]}
      [] OTHER -> {NoForm}

Players == {"p1", "p2"}

CaseIds == {"1", "2", "x"}

----------------------------------------------------------------------------
(* The generic table routes and the support-case routes *)

\* The generic routes are exercised on these tables; the table with the
\* two-column key has a specification of its own.
ListedTables == TableNames \ {"tags"}

NextTables ==
    \/ \E u \in Usernames, p \in Passwords : login(u, p)
    \/ logout
    \/ \E ref \in Referers : tables(ref)
    \/ \E t \in ListedTables, ref \in Referers : table_view(t, ref)
    \/ \E t \in ListedTables, ref \in Referers : \E f \in CreateForms(t) :
            table_create(t, f, ref)
    \/ \E t \in ListedTables, ref \in Referers : \E f \in UpdateForms(t) :
            table_update(t, f, ref)
    \/ \E t \in ListedTables, ref \in Referers : \E f \in DeleteForms(t) :
            table_delete(t, f, ref)

SpecTables == Init /\ [][NextTables]_vars

NextCases ==
    \/ \E u \in Usernames, p \in Passwords : login(u, p)
    \/ logout
    \/ \E ref \in Referers : \E f \in UpdateForms("support_cases") :
            table_update("support_cases", f, ref)
    \/ \E uid \in Players, c \in CaseIds, ref \in Referers : support_edit(uid, c, ref)
    \/ \E uid \in Players, c \in CaseIds, ref \in Referers :
            support_toggle_status(uid, c, ref)

SpecCases == Init /\ [][NextCases]_vars

----------------------------------------------------------------------------
(* Properties of the generic table routes *)

Table(r) == r.arg.table_name

\* The roles assigned to the user in admin_user_roles.
RoleIdsOf(user_id) == {ur[2] : ur \in {x \in admin_user_roles : x[1] = user_id}}

NoPkTables == {t \in DOMAIN Schema : primary_key_columns(t) = {}}

KeyMaps == {NoForm, [msg |-> "a"], [id |-> 1]}

RowData == {NoForm, [msg |-> "b"], [msg |-> "b", bogus |-> "x"]}

\* C1: on a table without primary-key column update_row and delete_row fail
\* for every key map and row data and return the rows as they are, and every
\* POST to /table/{name}/update and /table/{name}/delete on such a table
\* ends in an exception and leaves every table unchanged.
C1_NoPkNeverMutated ==
    /\ [](\A t \in NoPkTables : \A pk_values \in KeyMaps :
            /\ delete_row(t, pk_values) = [exc |-> "ValueError", rows |-> db[t]]
            /\ \A data \in RowData :
                 update_row(t, pk_values, data) = [exc |-> "ValueError", rows |-> db[t]])
    /\ [][(/\ req'.route \in {"table_update", "table_delete"}
           /\ Table(req') \in NoPkTables)
          => resp'.exc # "" /\ db' = db]_vars

\* C1 happens: an authorized update of slog reached row_identity_filter.
C1_Witness ==
    /\ req.route = "table_update"
    /\ Table(req) = "slog"
    /\ "msg" \in DOMAIN req.form
    /\ resp.exc = "ValueError"
    /\ db["slog"] = InitDb["slog"]

\* The user of the session is no admin and holds view but not create on plog.
PlogReader ==
    /\ session.user_id # NoUser
    /\ ~is_admin(session.user_id)
    /\ \E r \in RoleIdsOf(session.user_id) :
         /\ <<r, "plog">> \in DOMAIN admin_permissions
         /\ admin_permissions[<<r, "plog">>].can_view = 1
    /\ \A r \in RoleIdsOf(session.user_id) :
         <<r, "plog">> \in DOMAIN admin_permissions
            => admin_permissions[<<r, "plog">>].can_create = 0

PlogReaderSeesRows ==
    req'.route = "table_view" /\ Table(req') = "plog"
        => /\ resp'.status = 200
           /\ resp'.ctx.rows = db["plog"]
           /\ UNCHANGED db

\* C4 as stated: the reader of plog sees its rows, and a create by that user
\* is answered with status 403 and inserts nothing.
C4_Original ==
    [][PlogReader =>
        /\ PlogReaderSeesRows
        /\ req'.route = "table_create" /\ Table(req') = "plog"
              => resp'.status = 403 /\ db' = db]_vars

\* C4 amended: the reader of plog sees its rows; a create by that user raises
\* 403, which the application answers with a 303 redirect to the referring
\* page (to / without one) and one more flash message; nothing is inserted.
C4_ReaderCannotCreate ==
    [][PlogReader =>
        /\ PlogReaderSeesRows
        /\ req'.route = "table_create" /\ Table(req') = "plog"
              => /\ resp'.exc = "HTTP403"
                 /\ resp'.status = 303
                 /\ resp'.location =
                        IF req'.referer = NoReferer THEN <<"/">> ELSE req'.referer
                 /\ Len(session'.flash) = Len(session.flash) + 1
                 /\ db' = db]_vars

\* C4 happens: the support user was refused a create on plog.
C4_Witness ==
    /\ session.user_id = 2
    /\ req.route = "table_create"
    /\ Table(req) = "plog"
    /\ resp.exc = "HTTP403"
    /\ db = InitDb

\* The request passed the login and permission checks and found its table.
Served(r) == r.exc \notin {"HTTP401", "HTTP403", "NoSuchTableError"}

\* C7: a create that is carried out adds exactly one row to the table, with
\* the submitted value in every column the form names and the column's
\* default elsewhere, and changes no other row; a create is refused only for
\* a missing NOT NULL column or a duplicate key, never for a submitted field
\* that is no column of the table.
C7_CreateKeepsKnownColumns ==
    [][req'.route = "table_create" /\ Served(resp') =>
        LET t == Table(req')
            form == req'.form
            cols == Schema[t].cols
        IN  /\ resp'.exc = "" =>
                /\ Len(db'[t]) = Len(db[t]) + 1
                /\ \A u \in DOMAIN db \ {t} : db'[u] = db[u]
                /\ \E i \in DOMAIN db'[t] :
                     /\ DOMAIN db'[t][i] = cols
                     /\ \A k \in cols \cap DOMAIN form : db'[t][i][k] = form[k]
                     /\ "status" \in cols \ DOMAIN form => db'[t][i].status = "open"
                     /\ \A j \in DOMAIN db[t] :
                          db[t][j] = db'[t][IF j < i THEN j ELSE j + 1]
            /\ resp'.exc # "" =>
                /\ db' = db
                /\ \/ \E c \in Schema[t].required : c \notin DOMAIN form
                   \/ /\ "id" \in Schema[t].pks \cap DOMAIN form
                      /\ \E j \in DOMAIN db[t] : db[t][j].id = form.id]_vars

\* C7 happens: a form with a field that is no column was stored.
C7_Witness ==
    /\ req.route = "table_create"
    /\ Table(req) = "support_cases"
    /\ {"bogus", "status", "player_pid"} \subseteq DOMAIN req.form
    /\ resp.status = 303
    /\ resp.exc = ""
    /\ Len(db["support_cases"]) = 2

----------------------------------------------------------------------------
(* Properties of the support-case routes and of the exception handler *)

\* C6: after two toggle-status requests on one existing case with no other
\* request in between, the case has the status it had before the first.
C6_Original ==
    (/\ Len(toggles) = 2
     /\ toggles[1].uid = toggles[2].uid
     /\ toggles[1].case_id = toggles[2].case_id
     /\ toggles[2].before # "")
        => StatusOf(db["support_cases"], toggles[1].uid, toggles[1].case_id)
              = toggles[2].before

Redirected(r) == r.status = 303 /\ r.location # <<>>

\* C10 as stated: a 403 is answered with a redirect to the referring page
\* (read generously: to / when the request names none) and appends exactly one
\* flash message, of category warning; 401 and 404 are not redirected and add
\* no flash message.
C10_Original ==
    [][/\ resp'.exc = "HTTP403" =>
            /\ Redirected(resp')
            /\ resp'.location =
                   IF req'.referer = NoReferer THEN <<"/">> ELSE req'.referer
            /\ Len(session'.flash) = Len(session.flash) + 1
            /\ session'.flash[Len(session'.flash)].category = "warning"
       /\ resp'.exc \in {"HTTP401", "HTTP404"} =>
            /\ ~Redirected(resp')
            /\ session'.flash = session.flash]_vars

\* C10 amended: a 403 is answered with a 303 redirect to the referring page,
\* or to / when the request names none, and appends exactly one flash message,
\* of category danger; 401 and 404 are answered with their own status, are
\* not redirected and add no flash message.
C10_ForbiddenRedirects ==
    [][/\ resp'.exc = "HTTP403" =>
            /\ Redirected(resp')
            /\ resp'.location =
                   IF req'.referer = NoReferer THEN <<"/">> ELSE req'.referer
            /\ Len(session'.flash) = Len(session.flash) + 1
            /\ SubSeq(session'.flash, 1, Len(session.flash)) = session.flash
            /\ session'.flash[Len(session'.flash)].category = "danger"
            /\ session'.user_id = session.user_id
       /\ resp'.exc \in {"HTTP401", "HTTP404"} =>
            /\ ~Redirected(resp')
            /\ resp'.status = (IF resp'.exc = "HTTP401" THEN 401 ELSE 404)
            /\ session' = session]_vars

\* C10 happens: a second flash message was appended by a 403 that was sent
\* back to its referring page.
C10_Witness ==
    /\ resp.exc = "HTTP403"
    /\ resp.status = 303
    /\ resp.location = <<"/tables">>
    /\ Len(session.flash) = 2
    /\ session.flash[1].category = "info"
    /\ session.flash[2].category = "danger"

----------------------------------------------------------------------------
(* The role and permission administration *)

Credentials ==
    {<<"root", "pw-root">>, <<"supp", "pw-supp">>, <<"guest", "pw-guest">>,
     <<"old", "pw-old">>, <<"root", "pw-supp">>, <<"nobody", "pw-root">>}

RoleUsers == {"3"}

RoleIds == {"1", "2"}

PermForms ==
    {PermForm(0, {}),
     PermForm(1, {}),
     PermForm(2, {<<"plog", "view">>, <<"plog", "create">>, <<"ap", "admin_access">>,
                  <<"ap", "permissions_edit">>}),
     PermForm(2, {<<"slog", "delete">>, <<"ap", "user_role_add">>})}

NextRoles ==
    \/ \E c \in Credentials : login(c[1], c[2])
    \/ logout
    \/ \E u \in RoleUsers, r \in RoleIds : add_role(u, r, NoReferer)
    \/ \E u \in RoleUsers, r \in RoleIds : remove_role(u, r, NoReferer)
    \/ \E f \in PermForms : save_permissions(f, NoReferer)

SpecRoles == Init /\ [][NextRoles]_vars

----------------------------------------------------------------------------
(* The player info form *)

F_blank == [name |-> Str(<<" ">>), cash |-> Str(<<>>)]

F_bo == [name |-> Str(<<" ", "B", "o", " ">>), cash |-> Str(<<" ", "\t">>)]

F_cy == [name |-> Str(<<"C", "y">>), level |-> UploadFile]

F_cash == [cash |-> Str(<<"9">>), name |-> Str(<<>>)]

F_lvl == [level |-> Str(<<"7">>), gear |-> Str(<<"x">>)]

\* <<uid, side, form>> of the save requests.
InfoSaves ==
    {<<"p1", "0", F_blank>>, <<"p1", "0", F_bo>>, <<"p1", "0", F_cy>>,
     <<"p1", "0", F_cash>>, <<"p1", "0", NoForm>>, <<"p1", "1", F_lvl>>,
     <<"p2", "1", F_blank>>, <<"p1", "3", F_bo>>, <<"p1", "x", F_bo>>}

NextPlayers ==
    \/ \E c \in Credentials : login(c[1], c[2])
    \/ logout
    \/ \E t \in InfoSaves, ref \in Referers :
            save_player_info_side(t[1], t[2], t[3], ref)

SpecPlayers == Init /\ [][NextPlayers]_vars

ToggleUsers == {"2", "4", "x"}

NextUsers ==
    \/ \E u \in Usernames, p \in Passwords : login(u, p)
    \/ logout
    \/ \E u \in ToggleUsers : toggle_user(u, NoReferer)

SpecUsers == Init /\ [][NextUsers]_vars

----------------------------------------------------------------------------
(* The generic routes on tables with a primary key of one and of two columns *)

KeyCredentials == {<<"root", "pw-root">>, <<"supp", "pw-supp">>}

KeyTables == {"plog", "tags"}

NextKeys ==
    \/ \E c \in KeyCredentials : login(c[1], c[2])
    \/ logout
    \/ \E t \in KeyTables : \E f \in UpdateForms(t) : table_update(t, f, NoReferer)
    \/ \E t \in KeyTables : \E f \in DeleteForms(t) : table_delete(t, f, NoReferer)

SpecKeys == Init /\ [][NextKeys]_vars

----------------------------------------------------------------------------
(* Sessions and the active flag: an account is switched off while a session *)
(* of it exists. root may toggle every account, the own one included.       *)

SessionCredentials == {<<"root", "pw-root">>, <<"supp", "pw-supp">>}

SessionToggles == {"1", "2", "4"}

NextSessions ==
    \/ \E c \in SessionCredentials : login(c[1], c[2])
    \/ logout
    \/ \E u \in SessionToggles : toggle_user(u, NoReferer)
    \/ tables(NoReferer)
    \/ table_view("plog", NoReferer)

SpecSessions == Init /\ [][NextSessions]_vars

----------------------------------------------------------------------------
(* The generic routes asked for the tables of the panel itself, beside the  *)
(* permissions page with checkbox keys that name such tables. The reflector *)
(* would find these tables; the model keeps no rows of them under the       *)
(* generic routes, which no request reaches while can is false for them.    *)

AdminCredentials == {<<"root", "pw-root">>, <<"supp", "pw-supp">>}

AdminForms ==
    {PermForm(2, {<<"admin_users", "view">>, <<"admin_permissions", "create">>,
                  <<"plog", "create">>, <<"ap", "admin_access">>}),
     PermForm(1, {<<"admin_permissions", "view">>, <<"admin_permissions", "update">>,
                  <<"admin_roles", "delete">>, <<"plog", "view">>})}

ViewedTables == {"admin_users", "admin_permissions", "plog"}

NewPermissionRow ==
    [role_id |-> 2, table_name |-> "admin_users", can_view |-> 1, can_create |-> 1,
     can_update |-> 1, can_delete |-> 1]

NextAdminTables ==
    \/ \E c \in AdminCredentials : login(c[1], c[2])
    \/ logout
    \/ \E f \in AdminForms : save_permissions(f, NoReferer)
    \/ tables(NoReferer)
    \/ \E t \in ViewedTables : table_view(t, NoReferer)
    \/ table_create("admin_permissions", NewPermissionRow, NoReferer)
    \/ table_update("admin_users", [pk_id |-> 1, is_active |-> 0], NoReferer)
    \/ table_delete("admin_roles", [pk_id |-> 1], NoReferer)

SpecAdminTables == Init /\ [][NextAdminTables]_vars

----------------------------------------------------------------------------
(* A client that follows redirects: the GET of the Location it was sent,    *)
(* with the Referer of the request that was redirected.                      *)

FollowCredentials ==
    {<<"root", "pw-root">>, <<"supp", "pw-supp">>, <<"guest", "pw-guest">>}

FollowTables == {"plog", "tags"}

FollowReferers == {NoReferer, <<"/tables">>, <<"/table", "plog">>, <<"/table", "tags">>}

\* The response in hand is a redirect; the page at its location is asked for.
follow_redirect ==
    /\ resp.status = 303
    /\ \/ resp.location = <<"/">> /\ root(req.referer)
       \/ resp.location = <<"/login">> /\ login_page(req.referer)
       \/ resp.location = <<"/tables">> /\ tables(req.referer)
       \/ /\ Len(resp.location) = 2
          /\ resp.location[1] = "/table"
          /\ table_view(resp.location[2], req.referer)

NextFollow ==
    \/ \E c \in FollowCredentials : login(c[1], c[2])
    \/ logout
    \/ \E t \in FollowTables, ref \in FollowReferers : table_view(t, ref)
    \/ \E t \in FollowTables, ref \in FollowReferers :
            table_delete(t, [pk_id |-> 1], ref)
    \/ follow_redirect

SpecFollow == Init /\ [][NextFollow]_vars

----------------------------------------------------------------------------
(* The admin panel: every request that changes users, roles or permissions *)

PanelCredentials ==
    {<<"root", "pw-root">>, <<"supp", "pw-supp">>, <<"guest", "pw-guest">>}

NewUsers ==
    {<<" neo ", "pw-neo-1">>, <<"ab ", "pw-neo-1">>, <<"root", "short">>,
     <<Missing, "short">>}

NewRoles == {" mod", " \t"}

\* The second form grants user_toggle without the entry to the panel.
PanelForms ==
    {PermForm(0, {}),
     PermForm(2, {<<"ap", "admin_access">>, <<"ap", "user_create">>,
                  <<"ap", "role_create">>}),
     PermForm(2, {<<"ap", "user_toggle">>})}

NextPanel ==
    \/ \E c \in PanelCredentials : login(c[1], c[2])
    \/ logout
    \/ \E n \in NewUsers : create_user(n[1], n[2], NoReferer)
    \/ toggle_user("4", NoReferer)
    \/ add_role("3", "2", NoReferer)
    \/ remove_role("3", "2", NoReferer)
    \/ \E n \in NewRoles : create_role(n, NoReferer)
    \/ \E f \in PanelForms : save_permissions(f, NoReferer)

SpecPanel == Init /\ [][NextPanel]_vars

----------------------------------------------------------------------------
(* Properties of the authorization service and of the login *)

UserIds == {NoUser} \cup DOMAIN admin_users

CheckedTables == TableNames \cup {"admin_users", "nope"}

TableActions == {"view", "create", "update", "delete"}

PanelActions ==
    {"admin_access", "user_create", "user_toggle", "user_role_add",
     "user_role_remove", "role_create", "permissions_edit"}

\* Role r has a row for the table that grants the action.
GrantsTable(r, t, a) ==
    /\ <<r, t>> \in DOMAIN admin_permissions
    /\ CASE a = "view" -> admin_permissions[<<r, t>>].can_view = 1
         [] a = "create" -> admin_permissions[<<r, t>>].can_create = 1
         [] a = "update" -> admin_permissions[<<r, t>>].can_update = 1
         [] a = "delete" -> admin_permissions[<<r, t>>].can_delete = 1
         [] OTHER -> FALSE

\* Role r has a panel row that grants the action.
GrantsPanel(r, a) ==
    /\ r \in DOMAIN admin_panel_permissions
    /\ CASE a = "admin_access" -> admin_panel_permissions[r].can_admin_access = 1
         [] a = "user_create" -> admin_panel_permissions[r].can_user_create = 1
         [] a = "user_toggle" -> admin_panel_permissions[r].can_user_toggle = 1
         [] a = "user_role_add" -> admin_panel_permissions[r].can_user_role_add = 1
         [] a = "user_role_remove" -> admin_panel_permissions[r].can_user_role_remove = 1
         [] a = "role_create" -> admin_panel_permissions[r].can_role_create = 1
         [] a = "permissions_edit" -> admin_panel_permissions[r].can_permissions_edit = 1
         [] OTHER -> FALSE

\* Role r has a row that lets it edit the field on the side.
GrantsField(r, side, f) ==
    [role_id |-> r, side |-> side, field_name |-> f, can_edit |-> 1]
        \in admin_kv_permissions

HoldsAdminRole(u) ==
    \E r \in RoleIdsOf(u) : r \in DOMAIN admin_roles /\ admin_roles[r] = "admin"

\* C2: each of the three checks answers true only for an action, side and
\* field of its fixed vocabulary that a permission row of a role assigned to
\* the user grants (can_kv_field also for a holder of the admin role); an
\* unknown action, side, field or table is answered false.
C2_DenyByDefault ==
    \A u \in UserIds :
        /\ \A t \in CheckedTables, a \in TableActions \cup {"drop", "can_view"} :
             can(u, t, a) =>
                a \in TableActions /\ \E r \in RoleIdsOf(u) : GrantsTable(r, t, a)
        /\ \A a \in PanelActions \cup {"drop", "can_admin_access"} :
             can_admin_panel(u, a) =>
                a \in PanelActions /\ \E r \in RoleIdsOf(u) : GrantsPanel(r, a)
        /\ \A side \in 0..3, f \in KV_FIELDS \cup {"gear", "licenses"} :
             can_kv_field(u, side, f) =>
                /\ side \in 0..2
                /\ f \in KV_FIELDS
                /\ HoldsAdminRole(u) \/ \E r \in RoleIdsOf(u) : GrantsField(r, side, f)

\* C2 happens: after a permission save and a role assignment guest holds
\* create on plog through the role support, and nothing the rows do not grant.
C2_Witness ==
    /\ req.route = "add_role"
    /\ <<3, 2>> \in admin_user_roles
    /\ can(3, "plog", "create")
    /\ ~can(3, "slog", "view")
    /\ can_admin_panel(3, "permissions_edit")
    /\ ~can_admin_panel(3, "user_toggle")
    /\ can_kv_field(3, 0, "name")
    /\ ~can_kv_field(3, 0, "cash")

\* C3 as stated: a holder of the admin role passes can for every table and
\* action, can_admin_panel for every panel action and can_kv_field for
\* every valid side and field, whatever the permission rows are.
C3_Original ==
    \A u \in DOMAIN admin_users : HoldsAdminRole(u) =>
        /\ \A t \in ApplicationTables, a \in TableActions : can(u, t, a)
        /\ \A a \in PanelActions : can_admin_panel(u, a)
        /\ \A side \in 0..2, f \in KV_FIELDS : can_kv_field(u, side, f)

\* C3 amended: a holder of the admin role passes can_kv_field for every valid
\* side and field and every gate of the admin panel (require_admin, and
\* is_admin or can_admin_panel for each panel action), whatever the
\* permission rows are; can and can_admin_panel give no bypass: they answer
\* true for that user exactly when a row of one of the user's roles grants it.
C3_AdminPasses ==
    \A u \in DOMAIN admin_users : HoldsAdminRole(u) =>
        /\ \A side \in 0..2, f \in KV_FIELDS : can_kv_field(u, side, f)
        /\ panel_require_admin([user_id |-> u, flash |-> <<>>]).exc = 0
        /\ require_admin([user_id |-> u, flash |-> <<>>]).exc = 0
        /\ \A a \in PanelActions :
             /\ panel_allowed(u, a)
             /\ can_admin_panel(u, a) <=> \E r \in RoleIdsOf(u) : GrantsPanel(r, a)
        /\ \A t \in ApplicationTables, a \in TableActions :
             can(u, t, a) <=> \E r \in RoleIdsOf(u) : GrantsTable(r, t, a)

\* C3 happens: root, admin without any granting row, assigned a role.
C3_Witness ==
    /\ session.user_id = 1
    /\ HoldsAdminRole(1)
    /\ \A a \in PanelActions : ~can_admin_panel(1, a)
    /\ \A t \in ApplicationTables : ~can(1, t, "view")
    /\ req.route = "add_role"
    /\ resp.status = 303
    /\ session.flash # <<>>
    /\ session.flash[Len(session.flash)].category = "success"

\* C8: a login that names a deactivated account with its password, an
\* unknown username or a wrong password leaves the session as it is (no
\* user_id is stored) and gets one and the same response in all three cases.
C8_LoginFailsAlike ==
    [][req'.route = "login" =>
        LET ids == {id \in DOMAIN admin_users :
                        admin_users[id].username = req'.arg.username}
            unknown == ids = {}
            inactive == \E id \in ids : admin_users[id].is_active = 0
            wrong == \E id \in ids :
                        admin_users[id].password_hash # <<"bcrypt", req'.arg.password>>
        IN  unknown \/ inactive \/ wrong =>
                /\ session' = session
                /\ resp' = [status |-> 200, location |-> <<>>,
                            template |-> "login.html",
                            ctx |-> [error |-> "Login fehlgeschlagen."],
                            exc |-> ""]]_vars

\* C8 happens: supp, deactivated by toggle_user, was refused with its password.
C8_Witness ==
    /\ req.route = "login"
    /\ req.arg = [username |-> "supp", password |-> "pw-supp"]
    /\ admin_users[2].is_active = 0
    /\ verify_password(req.arg.password, admin_users[2].password_hash)
    /\ session.user_id = NoUser
    /\ resp.template = "login.html"

\* The field is absent from the form, or its value is empty or all whitespace.
Blank(form, f) ==
    \/ f \notin DOMAIN form
    \/ /\ form[f].kind = "str"
       /\ \A i \in DOMAIN form[f].text : form[f].text[i] \in {" ", "\t", "\n"}

\* C5: a save_player_info_side request leaves the kvstore record
\* (player, field, side) of every field it submits blank as it was: the same
\* value and type tag, and no record where there was none; a request with
\* all fields blank changes nothing, and running a save a second time
\* changes nothing the first run left.
C5_BlankKeepsRecord ==
    /\ [][req'.route = "save_player_info_side" =>
            /\ \A k \in DOMAIN kvstore \cup DOMAIN kvstore' :
                  (/\ k[1] = req'.arg.uid
                   /\ is_int(req'.arg.side)
                   /\ k[3] = int(req'.arg.side)
                   /\ Blank(req'.form, k[2]))
                    => /\ k \in DOMAIN kvstore
                       /\ k \in DOMAIN kvstore'
                       /\ kvstore'[k] = kvstore[k]
            /\ (\A f \in KV_FIELDS : Blank(req'.form, f)) => kvstore' = kvstore]_vars
    /\ [](\A u \in DOMAIN admin_users, q \in InfoSaves :
            (is_int(q[2]) /\ int(q[2]) \in 0..2) =>
                LET once == save_fields(1, kvstore, u, q[1], int(q[2]), q[3])
                    twice == save_fields(1, once.kv, u, q[1], int(q[2]), q[3])
                IN  once.exc = "" => twice.kv = once.kv)

\* C5 happens: root saved a name for p1 together with a whitespace-only cash,
\* a field root may edit; cash kept its value and its type tag.
C5_Witness ==
    /\ req.route = "save_player_info_side"
    /\ req.arg = [uid |-> "p1", side |-> "0"]
    /\ req.form = F_bo
    /\ session.user_id = 1
    /\ can_kv_field(1, 0, "cash")
    /\ resp.status = 303
    /\ kvstore[<<"p1", "name", 0>>] = [v |-> <<"B", "o">>, t |-> "STRING"]
    /\ kvstore[<<"p1", "cash", 0>>] = [v |-> <<"5">>, t |-> "SCALAR"]
    /\ <<"p1", "level", 0>> \notin DOMAIN kvstore

\* C9 as stated: every request to a protected endpoint made while the session
\* holds no user id is answered with 401 and writes nothing to the database.
C9_Original ==
    [][(session.user_id = NoUser /\ req'.route \notin {"login", "logout"}) =>
            /\ resp'.status = 401
            /\ UNCHANGED <<authVars, permVars, dataVars>>]_vars

----------------------------------------------------------------------------
(* The support-case routes of the player page *)

SupportCredentials ==
    {<<"root", "pw-root">>, <<"guest", "pw-guest">>, <<"root", "pw-supp">>}

CaseForms ==
    {[case_type |-> <<" ", "b">>, status |-> "pending"],
     [case_type |-> <<"a">>, status |-> "closed"],
     [status |-> "closed"]}

NextSupport ==
    \/ \E c \in SupportCredentials : login(c[1], c[2])
    \/ logout
    \/ \E f \in CaseForms : support_create("p1", f, NoReferer)
    \/ \E uid \in Players, c \in CaseIds, f \in CaseForms :
            support_update(uid, c, f, NoReferer)
    \/ \E uid \in Players, c \in CaseIds : support_delete(uid, c, NoReferer)

SpecSupport == Init /\ [][NextSupport]_vars

CaseRoutes == {"support_edit", "support_update", "support_toggle_status", "support_delete"}

TableRoutes ==
    [table_view |-> "view", table_create |-> "create", table_update |-> "update",
     table_delete |-> "delete"]

\* A well-formed request of a user let into the player pages for a case that
\* the player does not have.
MissingCase(r) ==
    /\ r.route \in CaseRoutes
    /\ is_int(r.arg.case_id)
    /\ r.route = "support_update" => "case_type" \in DOMAIN r.form
    /\ require_admin(session).exc = 0
    /\ \A i \in DOMAIN db["support_cases"] :
          ~(/\ db["support_cases"][i].id = int(r.arg.case_id)
            /\ db["support_cases"][i].player_pid = r.arg.uid)

\* A request of a logged-in user holding the route's permission for a table
\* that the database does not have.
MissingTable(r) ==
    /\ r.route \in DOMAIN TableRoutes
    /\ session.user_id # NoUser
    /\ can(session.user_id, Table(r), TableRoutes[r.route])
    /\ Table(r) \notin DOMAIN TABLE_UI_RULES
    /\ Table(r) \notin DOMAIN Schema

\* C13 as stated: the status of every support case is 'open' or 'closed'.
C13_Original ==
    \A i \in DOMAIN db["support_cases"] :
        db["support_cases"][i].status \in {"open", "closed"}

----------------------------------------------------------------------------
(* The vehicle routes of the player page *)

VehicleIds == {"1", "2", "x"}

VehicleForms ==
    {[sold |-> "On", color |-> "1"], [alive |-> "1", active |-> "TRUE", color |-> "x"]}

QuickActions == {"sell", "restore", "explode"}

\* <<uid, side, form>> of the info saves sent beside the vehicle requests.
SideSaves == {<<"p1", "3", F_bo>>, <<"p1", "0", F_bo>>}

NextVehicles ==
    \/ \E c \in SupportCredentials : login(c[1], c[2])
    \/ logout
    \/ \E v \in VehicleIds : vehicle_edit(v, NoReferer)
    \/ \E v \in VehicleIds, f \in VehicleForms : vehicle_update(v, f, NoReferer)
    \/ \E v \in VehicleIds, a \in QuickActions : vehicle_quick_action(v, a, NoReferer)
    \/ \E q \in SideSaves : save_player_info_side(q[1], q[2], q[3], NoReferer)

SpecVehicles == Init /\ [][NextVehicles]_vars

VehicleRoutes == {"vehicle_edit", "vehicle_update", "vehicle_quick_action"}

\* A well-formed request of a user let into the player pages for a vehicle
\* that does not exist.
MissingVehicle(r) ==
    /\ r.route \in VehicleRoutes
    /\ is_int(r.arg.vehicle_id)
    /\ r.route = "vehicle_update" => ("color" \in DOMAIN r.form => is_int(r.form.color))
    /\ r.route = "vehicle_quick_action" =>
          r.arg.action \in {"restore", "lock", "unlock", "sell", "unsell", "kill", "revive"}
    /\ require_admin(session).exc = 0
    /\ \A i \in DOMAIN db["vehicles"] : db["vehicles"][i].id # int(r.arg.vehicle_id)

\* C11 as stated: a request for a table, a case of a player or a vehicle
\* that does not exist is answered with 404 and changes nothing (read for
\* the well-formed requests of users the route admits).
C11_Original ==
    [][(MissingCase(req') \/ MissingTable(req') \/ MissingVehicle(req')) =>
            /\ resp'.status = 404
            /\ UNCHANGED <<session, authVars, permVars, dataVars>>]_vars

\* C12 as stated, at the HTTP level: a POST to /table/{name}/update or
\* /table/{name}/delete by a user holding the permission, for a table with a
\* primary key, that omits the pk_ field of a key column is answered with a
\* status of the 400 class and changes no row.
C12_Original ==
    [][(/\ req'.route \in {"table_update", "table_delete"}
        /\ session.user_id # NoUser
        /\ Table(req') \in DOMAIN Schema
        /\ can(session.user_id, Table(req'), TableRoutes[req'.route])
        /\ Table(req') \notin DOMAIN TABLE_UI_RULES
        /\ \E c \in Schema[Table(req')].pks :
              \A k \in DOMAIN req'.form : k # PkField[c])
            => /\ resp'.status \in 400..499
               /\ db' = db]_vars

ValidActions == {"restore", "lock", "unlock", "sell", "unsell", "kill", "revive"}

Submitted(form, f) == [v |-> strip(form[f].text), t |-> "STRING"]

\* The user may edit the field on the side: by the admin role or by a row.
MayEdit(u, side, f) ==
    /\ side \in {0, 1, 2}
    /\ f \in KV_FIELDS
    /\ HoldsAdminRole(u) \/ \E r \in RoleIdsOf(u) : GrantsField(r, side, f)

\* C14: a save_player_info_side request persists either every field write it
\* makes or none: when the request ends with an error the kvstore is what it
\* was before the request, also when fields had been written before the
\* failing step; when it ends well every field the user may edit and that
\* was submitted non-blank holds the submitted value.
C14_SaveAllOrNothing ==
    [][req'.route = "save_player_info_side" =>
        LET form == req'.form
            side == int(req'.arg.side)
            Key(f) == <<req'.arg.uid, f, side>>
        IN  /\ resp'.status # 303 => kvstore' = kvstore
            /\ resp'.status = 303 =>
                  \A f \in KV_FIELDS :
                      (MayEdit(session.user_id, side, f) /\ ~Blank(form, f)) =>
                          /\ Key(f) \in DOMAIN kvstore'
                          /\ kvstore'[Key(f)] = Submitted(form, f)]_vars

\* C14 happens: root's save wrote name, then failed on the uploaded file sent
\* as level; the name is the one stored before.
C14_Witness ==
    /\ req.route = "save_player_info_side"
    /\ req.arg = [uid |-> "p1", side |-> "0"]
    /\ req.form = F_cy
    /\ session.user_id = 1
    /\ resp.status = 500
    /\ resp.exc = "AttributeError"
    /\ save_fields(1, kvstore, 1, "p1", 0, F_cy).kv[<<"p1", "name", 0>>].v = <<"C", "y">>
    /\ kvstore[<<"p1", "name", 0>>].v # <<"C", "y">>

\* C17: a save_player_info_side request for player P and side S changes,
\* creates or removes only kvstore records (P, f, S) where f is an info field
\* the caller may edit on S and the form carries a non-blank value for f; it
\* changes nothing else in the database.
C17_SaveTouchesOnlyPermitted ==
    [][req'.route = "save_player_info_side" =>
        /\ UNCHANGED <<authVars, permVars, db>>
        /\ \A k \in DOMAIN kvstore \cup DOMAIN kvstore' :
              (\/ k \notin DOMAIN kvstore
               \/ k \notin DOMAIN kvstore'
               \/ kvstore'[k] # kvstore[k])
                => /\ k[1] = req'.arg.uid
                   /\ is_int(req'.arg.side)
                   /\ k[3] = int(req'.arg.side)
                   /\ MayEdit(session.user_id, k[3], k[2])
                   /\ ~Blank(req'.form, k[2])
                   /\ req'.form[k[2]].kind = "str"]_vars

\* C17 happens: supp, who wrote the name of p1 before, sent a cash value for
\* p1 as civilian, a field supp may not edit; cash is as it was.
C17_Witness ==
    /\ req.route = "save_player_info_side"
    /\ req.arg = [uid |-> "p1", side |-> "0"]
    /\ req.form = F_cash
    /\ session.user_id = 2
    /\ resp.status = 303
    /\ kvstore[<<"p1", "cash", 0>>] = [v |-> <<"5">>, t |-> "SCALAR"]
    /\ kvstore[<<"p1", "name", 0>>].v # <<"A", "l">>
    /\ kvstore[<<"p1", "gear", 0>>] = InitKvstore[<<"p1", "gear", 0>>]

----------------------------------------------------------------------------
(* Info saves of several clients side by side: save_player_info_side as the *)
(* steps its transaction takes on the database. A row written in a          *)
(* transaction stays locked until the transaction ends; a statement for a   *)
(* locked row waits.                                                        *)

blocked_Never(p, key) == FALSE

\* Another transaction in flight has written the row of the key.
blocked(p, key) ==
    \E q \in Procs \ {p} : txs.t[q].pc = "run" /\ key \in DOMAIN txs.t[q].writes

\* The request passed require_admin and the side check, read its form and
\* opened the transaction.
save_begin(p, user, uid, side, form) ==
    /\ txs.t[p].pc = "idle"
    /\ require_admin([user_id |-> user, flash |-> <<>>]).exc = 0
    /\ side \in {0, 1, 2}
    /\ txs' = [txs EXCEPT !.t[p] =
                 [pc |-> "run", user |-> user, uid |-> uid, side |-> side,
                  form |-> form, i |-> 1, writes |-> NoWrites]]
    /\ UNCHANGED <<session, authVars, permVars, dataVars, req, resp, toggles>>

\* One turn of the loop over fields.
save_field(p) ==
    LET tx == txs.t[p]
        f == fields[tx.i]
        key == <<tx.uid, f, tx.side>>
        val == strip(IF f \in DOMAIN tx.form THEN tx.form[f].text ELSE <<>>)
        next == [tx EXCEPT !.i = @ + 1]
    IN  /\ tx.pc = "run"
        /\ tx.i <= Len(fields)
        /\ IF ~can_kv_field(tx.user, tx.side, f)
           THEN txs' = [txs EXCEPT !.t[p] = next]
           ELSE IF f \in DOMAIN tx.form /\ tx.form[f].kind = "file"
           THEN txs' = [txs EXCEPT !.t[p] = [tx EXCEPT !.pc = "aborted",
                                                       !.writes = NoWrites]]
           ELSE IF val = <<>>
           THEN txs' = [txs EXCEPT !.t[p] = next]
           ELSE /\ ~blocked(p, key)
                /\ txs' = [t |-> [txs.t EXCEPT ![p] =
                                    [next EXCEPT !.writes =
                                        [k \in DOMAIN tx.writes \cup {key} |->
                                            IF k = key THEN val ELSE tx.writes[k]]]],
                           hist |-> Append(txs.hist,
                                    [p |-> p, key |-> key, val |-> val,
                                     kind |-> IF key \in DOMAIN kvstore
                                              THEN "update" ELSE "insert"])]
        /\ UNCHANGED <<session, authVars, permVars, dataVars, req, resp, toggles>>

\* The block of engine.begin() ends: the writes are committed.
save_commit(p) ==
    LET tx == txs.t[p]
    IN  /\ tx.pc = "run"
        /\ tx.i > Len(fields)
        /\ kvstore' = [k \in DOMAIN kvstore \cup DOMAIN tx.writes |->
                          IF k \in DOMAIN tx.writes
                          THEN [v |-> tx.writes[k], t |-> "STRING"]
                          ELSE kvstore[k]]
        /\ txs' = [txs EXCEPT !.t[p] = [tx EXCEPT !.pc = "done", !.writes = NoWrites]]
        /\ UNCHANGED <<session, authVars, permVars, db, req, resp, toggles>>

F_dan == [name |-> Str(<<"D">>), cash |-> Str(<<"9">>), level |-> Str(<<"2">>)]

SideBySideForms == {F_bo, F_cy, F_dan}

SideBySideUsers == {1, 2}

NextSideBySide ==
    \/ \E p \in Procs, u \in SideBySideUsers, f \in SideBySideForms :
            save_begin(p, u, "p1", 0, f)
    \/ \E p \in Procs : save_field(p)
    \/ \E p \in Procs : save_commit(p)

SpecSideBySide == Init /\ [][NextSideBySide]_vars

Committed(p) == txs.t[p].pc = "done"

\* The positions in the history of the writes to the key that were committed.
CommittedWrites(key) ==
    {i \in DOMAIN txs.hist : txs.hist[i].key = key /\ Committed(txs.hist[i].p)}

\* C15: however the info saves of two clients for the same player and side
\* interleave, no key is inserted twice (the kvstore holds one record per
\* (pid, k, side)); every stored value is the initial one or one that a
\* request submitted; and once no save is in flight, every key written by a
\* committed save holds the value of the last such write.
C15_LastWriterWins ==
    /\ \A key \in DOMAIN kvstore \cup {txs.hist[i].key : i \in DOMAIN txs.hist} :
          Cardinality({i \in CommittedWrites(key) : txs.hist[i].kind = "insert"})
            + (IF key \in DOMAIN InitKvstore THEN 1 ELSE 0) <= 1
    /\ \A k \in DOMAIN kvstore :
          \/ k \in DOMAIN InitKvstore /\ kvstore[k] = InitKvstore[k]
          \/ \E p \in Procs :
                /\ txs.t[p].pc # "idle"
                /\ k = <<txs.t[p].uid, k[2], txs.t[p].side>>
                /\ k[2] \in DOMAIN txs.t[p].form
                /\ txs.t[p].form[k[2]].kind = "str"
                /\ kvstore[k] = Submitted(txs.t[p].form, k[2])
    /\ (\A p \in Procs : txs.t[p].pc # "run") =>
          \A key \in {txs.hist[i].key : i \in DOMAIN txs.hist} :
              CommittedWrites(key) # {} =>
                  LET last == CHOOSE i \in CommittedWrites(key) :
                                 \A j \in CommittedWrites(key) : j <= i
                  IN  kvstore[key] = [v |-> txs.hist[last].val, t |-> "STRING"]

\* C15 happens: both clients wrote the name of p1 and committed; the second
\* write is the one stored.
C15_Witness ==
    /\ \A p \in Procs : Committed(p)
    /\ Len(txs.hist) >= 2
    /\ \E i, j \in DOMAIN txs.hist :
          /\ i < j
          /\ txs.hist[i].key = <<"p1", "name", 0>>
          /\ txs.hist[j].key = <<"p1", "name", 0>>
          /\ txs.hist[i].p # txs.hist[j].p
          /\ txs.hist[i].val # txs.hist[j].val
          /\ kvstore[<<"p1", "name", 0>>].v = txs.hist[j].val
    /\ <<"p1", "level", 0>> \in DOMAIN kvstore

----------------------------------------------------------------------------
(* Properties of the admin panel *)

\* The panel permission each mutating route of the panel asks for.
PanelRouteAction ==
    [create_user |-> "user_create", toggle_user |-> "user_toggle",
     add_role |-> "user_role_add", remove_role |-> "user_role_remove",
     create_role |-> "role_create", save_permissions |-> "permissions_edit"]

\* The user holds the admin role or a role whose panel row grants the action.
HoldsPanelGrant(u, a) ==
    HoldsAdminRole(u) \/ \E r \in RoleIdsOf(u) : GrantsPanel(r, a)

\* C16: a request to one of the six mutating routes of the admin panel
\* (create user, toggle user, add role, remove role, create role, save
\* permissions) changes the database only if the session's user is logged in,
\* may enter the panel (admin role or admin_access) and holds the admin role
\* or a role whose panel row grants the action of the route; a request that
\* is denied leaves every table as it was.
C16_PanelMutationsNeedGrant ==
    [][(/\ req'.route \in DOMAIN PanelRouteAction
        /\ <<authVars, permVars, dataVars>>' # <<authVars, permVars, dataVars>>)
       => /\ session.user_id # NoUser
          /\ HoldsPanelGrant(session.user_id, "admin_access")
          /\ HoldsPanelGrant(session.user_id, PanelRouteAction[req'.route])]_vars

\* supp, who holds no admin role, has created the user neo through the
\* user_create flag of the role support, and is refused the toggle of a user.
C16_Witness ==
    /\ session.user_id = 2
    /\ ~HoldsAdminRole(2)
    /\ req.route = "toggle_user"
    /\ resp.status = 303
    /\ Len(session.flash) = 2
    /\ session.flash[1].message = "User erfolgreich angelegt."
    /\ session.flash[2].message = "Keine Berechtigung: Aktiv/Inaktiv."
    /\ 5 \in DOMAIN admin_users
    /\ admin_users[5].username = "neo"
    /\ admin_users[4].is_active = 0

----------------------------------------------------------------------------
(* Properties of update_row and delete_row *)

PkTables == {t \in DOMAIN Schema : primary_key_columns(t) # {}}

\* Key maps that name every primary-key column of the table (the last one
\* of tags names a further column), and row data, some of it with key columns.
FullKeyMaps(t) ==
    IF t = "tags"
    THEN {[pid |-> "p1", k |-> "a"], [pid |-> "p1", k |-> "b"],
          [pid |-> "p2", k |-> "a"], [pid |-> "p1", k |-> "a", v |-> "1"]}
    ELSE {[id |-> 1], [id |-> 2]}

KeyRowData(t) ==
    CASE t = "tags" -> {[v |-> "9"], [pid |-> "p2", v |-> "9"], [k |-> "b"]}
      [] t = "plog" -> {[msg |-> "b"], [id |-> 2, msg |-> "b"]}
      [] OTHER -> {[status |-> "closed"], [id |-> 2, status |-> "closed"]}

\* Every primary-key column of the row equals the value the key map gives.
KeyEq(t, row, key) == \A c \in primary_key_columns(t) : row[c] = key[c]

RowsOf(rows) == {rows[i] : i \in DOMAIN rows}

\* after comes from before by an update with the key: row by row, no
\* primary-key value differs and a row that the key does not name is the same.
UpdateFrame(t, before, after, key) ==
    /\ Len(after) = Len(before)
    /\ \A i \in DOMAIN before :
          /\ \A c \in primary_key_columns(t) : after[i][c] = before[i][c]
          /\ ~KeyEq(t, before[i], key) => after[i] = before[i]

\* after comes from before by a delete with the key: no row is new or
\* changed, and every row that the key does not name is still there.
DeleteFrame(t, before, after, key) ==
    /\ RowsOf(after) \subseteq RowsOf(before)
    /\ \A i \in DOMAIN before :
          ~KeyEq(t, before[i], key) => before[i] \in RowsOf(after)

\* The key a request to /table/{name}/update or /delete supplies.
SuppliedKey(r) == [c \in primary_key_columns(Table(r)) |-> r.form[PkField[c]]]

\* C18: update_row changes only rows whose every primary-key column equals
\* the supplied key value and changes no primary-key value of any row, and
\* delete_row removes only rows whose every primary-key column equals the
\* supplied key value; the other rows of the table stay as they are. It holds
\* of the two functions for every full key map and row data, and of every
\* POST to /table/{name}/update and /table/{name}/delete, which also leaves
\* the other tables alone.
C18_OnlyKeyedRowsChange ==
    /\ [](\A t \in PkTables : \A key \in FullKeyMaps(t) :
            /\ DeleteFrame(t, db[t], delete_row(t, key).rows, key)
            /\ \A data \in KeyRowData(t) :
                 UpdateFrame(t, db[t], update_row(t, key, data).rows, key))
    /\ [][(req'.route \in {"table_update", "table_delete"} /\ db' # db)
          => LET t == Table(req')
             IN  /\ t \in PkTables
                 /\ \A u \in DOMAIN db \ {t} : db'[u] = db[u]
                 /\ IF req'.route = "table_update"
                    THEN UpdateFrame(t, db[t], db'[t], SuppliedKey(req'))
                    ELSE DeleteFrame(t, db[t], db'[t], SuppliedKey(req'))]_vars

\* Of the two rows of tags with pid p1 the update with the key (p1, a), sent
\* with a new pid among the data, has changed v of the first row and nothing
\* else.
C18_Witness ==
    /\ req.route = "table_update"
    /\ Table(req) = "tags"
    /\ "pid" \in DOMAIN req.form
    /\ resp.status = 303
    /\ db["tags"] = <<[pid |-> "p1", k |-> "a", v |-> "9"],
                      [pid |-> "p1", k |-> "b", v |-> "2"]>>

----------------------------------------------------------------------------
(* Properties of save_permissions *)

\* The tables of the database that are no admin_ table.
NonAdminTables == Catalog \ AdminTables

\* The rows of the other roles, in all three permission tables, are the same.
OtherRolesKept(R) ==
    /\ \A k \in DOMAIN admin_permissions \cup DOMAIN admin_permissions' :
          k[1] # R => /\ k \in DOMAIN admin_permissions
                      /\ k \in DOMAIN admin_permissions'
                      /\ admin_permissions'[k] = admin_permissions[k]
    /\ \A r \in DOMAIN admin_panel_permissions \cup DOMAIN admin_panel_permissions' :
          r # R => /\ r \in DOMAIN admin_panel_permissions
                   /\ r \in DOMAIN admin_panel_permissions'
                   /\ admin_panel_permissions'[r] = admin_panel_permissions[r]
    /\ admin_kv_permissions' = admin_kv_permissions

\* The flag of a permission row is 1; a role without the row has no flag set.
TableFlagSet(perms, r, t, a) ==
    /\ <<r, t>> \in DOMAIN perms
    /\ perms[<<r, t>>][ACTION_COL[a]] = 1

PanelFlagSet(panel, r, a) ==
    /\ r \in DOMAIN panel
    /\ panel[r][ADMIN_ACTION_COL[a]] = 1

\* C20: when save_permissions runs for a user who may save and the form
\* names role R, then afterwards, for every table T of the database that is
\* no admin_ table and every action A of view/create/update/delete, R's
\* flag for (T, A) is 1 exactly if the form held the key T__A, each of R's
\* seven panel flags is 1 exactly if the form held ap__<action>, and the
\* permission rows of every other role are as before; a request without
\* role_id, and one that is refused, changes no permission row.
C20_SavedFlagsMirrorForm ==
    [][req'.route = "save_permissions"
       => LET f == req'.form
              R == f.role_id
              u == session.user_id
          IN  IF /\ u # NoUser
                 /\ HoldsPanelGrant(u, "admin_access")
                 /\ HoldsPanelGrant(u, "permissions_edit")
                 /\ R # 0
              THEN /\ \A T \in NonAdminTables, A \in TableActions :
                        TableFlagSet(admin_permissions', R, T, A) <=> <<T, A>> \in f.keys
                   /\ \A a \in PanelActions :
                        PanelFlagSet(admin_panel_permissions', R, a) <=> <<"ap", a>> \in f.keys
                   /\ OtherRolesKept(R)
                   /\ UNCHANGED <<authVars, dataVars>>
              ELSE UNCHANGED <<authVars, permVars, dataVars>>]_vars

\* The form for the role support with plog__view, plog__create,
\* ap__admin_access and ap__permissions_edit has been saved: the role has
\* gained create on plog and the right to edit permissions and has lost
\* what the form did not name; the role admin still lacks create on slog.
C20_Witness ==
    /\ req.route = "save_permissions"
    /\ req.form.role_id = 2
    /\ <<"plog", "create">> \in req.form.keys
    /\ session.flash # <<>>
    /\ session.flash[Len(session.flash)].message = "Rechte gespeichert."
    /\ admin_permissions[<<2, "plog">>].can_create = 1
    /\ admin_permissions[<<2, "support_cases">>].can_view = 0
    /\ admin_panel_permissions[2].can_permissions_edit = 1
    /\ admin_permissions[<<1, "slog">>].can_create = 0

----------------------------------------------------------------------------
(* Properties of deactivated accounts *)

\* The request was turned away by an authentication or authorization check.
Refused(r) == r.status \in {401, 403} \/ r.exc \in {"HTTP401", "HTTP403"}

\* C21 as stated: a request to a protected endpoint that carries the session
\* of an account whose active flag is 0 is never authorized, whenever the
\* session was established.
C21_Original ==
    [][(/\ req'.route \notin {"login", "logout"}
        /\ session.user_id \in DOMAIN admin_users
        /\ admin_users[session.user_id].is_active = 0)
       => Refused(resp')]_vars

----------------------------------------------------------------------------
(* Properties of the permissions shown on a table page *)

\* The action of perms that a POST route of the generic tables stands for.
RoutePerm == [table_create |-> "create", table_update |-> "update",
              table_delete |-> "delete"]

----------------------------------------------------------------------------
(* Properties of the tables of the panel under the generic routes *)

GenericRoutes == {"table_view", "table_create", "table_update", "table_delete"}

\* C23: admin_permissions never holds a row for a table whose name starts
\* with admin_ (the tables of users, roles, user-roles and permissions); the
\* table list never names such a table, and every request to show it, insert
\* into it, update it or delete from it is refused and changes nothing.
C23_AdminTablesStayClosed ==
    /\ [](\A k \in DOMAIN admin_permissions : k[2] \notin AdminTables)
    /\ [](resp.template = "tables.html" => resp.ctx.tables \cap AdminTables = {})
    /\ [][(req'.route \in GenericRoutes /\ Table(req') \in AdminTables)
          => /\ Refused(resp')
             /\ UNCHANGED <<authVars, permVars, dataVars>>]_vars

\* The permissions form for the role support was saved with the keys
\* admin_users__view and admin_permissions__create among its checkboxes, and
\* supp, who holds the role, is then refused the page of admin_users.
C23_Witness ==
    /\ req.route = "table_view"
    /\ Table(req) = "admin_users"
    /\ session.user_id = 2
    /\ resp.exc = "HTTP403"
    /\ admin_permissions[<<2, "plog">>].can_create = 1
    /\ <<2, "admin_users">> \notin DOMAIN admin_permissions

----------------------------------------------------------------------------
(* Properties of the redirect after a 403 *)

\* The path a GET request of the model asks for.
PathOf(r) ==
    CASE r.route = "root" -> <<"/">>
      [] r.route = "login_page" -> <<"/login">>
      [] r.route = "tables" -> <<"/tables">>
      [] r.route = "table_view" -> <<"/table", r.arg.table_name>>
      [] OTHER -> <<"(no page)">>

\* The step is the GET of the location a 403 was redirected to, sent with
\* the Referer of the refused request.
Follows403 ==
    /\ resp.exc = "HTTP403"
    /\ Redirected(resp)
    /\ PathOf(req') = resp.location
    /\ req'.referer = req.referer

\* C24 as stated: the page the 403 handler sends the client to never answers
\* 403 again; a second 403 sends the client, with the same Referer, to the
\* same page once more, in the same permission state and with one flash
\* message more, so that the rounds do not end.
C24_Original ==
    [][Follows403 =>
          ~(/\ resp'.exc = "HTTP403"
            /\ resp'.location = resp.location
            /\ Len(session'.flash) = Len(session.flash) + 1
            /\ UNCHANGED <<authVars, permVars, dataVars>>)]_vars

====
